---------------------------- MODULE Spec2Model ----------------------------
(***************************************************************************)
(* Model of the gainz Bitcoin portfolio tracker: the historical series     *)
(* store (js/data/historicalData.js), the time-window resolver             *)
(* (js/business/timeWindows.js), the metrics engine                        *)
(* (js/business/portfolio.js), the application coordinator (js/app.js),    *)
(* the current price service (js/data/priceService.js), the range selector *)
(* (js/ui/rangeSelector.js) and the price file update                      *)
(* (scripts/update-prices.js).                                             *)
(*                                                                         *)
(* Time.  A Date is its time value, counted here in ticks of 6 hours since *)
(* 1970-01-01T00:00Z (TicksPerDay ticks per day instead of 86 400 000 ms). *)
(* A 'YYYY-MM-DD' string is the triple <<y, m, d>> of its fields.  The     *)
(* local time zone of the JavaScript engine has the offset tz (local =     *)
(* UTC + tz ticks); zoneChange is the one change of that offset (a         *)
(* daylight-saving transition, one tick here), absent in all but SpecZone. *)
(*                                                                         *)
(* Numbers.  A JavaScript value that is used as a number is a record       *)
(* [t, v]: t = "num" for a finite number v, "nan", "inf", "ninf" for the   *)
(* non-finite numbers and "str" for a value that is not a number.  Finite  *)
(* numbers are integers here; quotients and powers are kept as the terms   *)
(* the code evaluates (numerator/denominator, base/exponent).              *)
(***************************************************************************)
EXTENDS Integers, Sequences, FiniteSets, TLC

VARIABLES
    now,                   \* the clock: what new Date() returns
    tz,                    \* local time zone offset of the engine, in ticks
    zoneChange,            \* [at, shift]: from instant at on the offset is tz + shift
    rawData,               \* the raw object handed to parseHistoricalData
    series,                \* the series a library caller got from parseHistoricalData
    metricsInput,          \* the arguments a library caller hands to calculatePortfolioMetrics
    globalHistoricalData,  \* parsed series held by the application, or Null
    globalCurrentPrice,    \* app.js global
    globalBtcAmount,       \* app.js global
    currentTimeWindow,     \* app.js global
    priceSource,           \* "none", "live" or "fallback": where globalCurrentPrice came from
    metricsView,           \* what the six metric elements of the page show
    lastUpdate,            \* window and instant of the last metrics update
    loadedAt,              \* instant at which init() ran
    phase,                 \* "start" before init() has run, then "ready" or "failed"
    enabledButtons,        \* the time-window buttons that are not disabled
    settled,               \* init(): the two results of Promise.allSettled
    url,                   \* the btc and period parameters of window.location
    priceCache,            \* localStorage entry 'btc_current_price'
    clock,                 \* Date.now() of the price service, in steps of 20 s
    cachedHistoricalData,  \* module variable of historicalData.js
    files,                 \* what a fetch of each data url answers
    selector,              \* closure variables of one range selector
    call                   \* the last library call: operation, arguments, outcome

vars == <<now, tz, zoneChange, rawData, series, metricsInput, globalHistoricalData, globalCurrentPrice,
          globalBtcAmount, currentTimeWindow, priceSource, metricsView,
          lastUpdate, loadedAt, phase, enabledButtons, settled, url, priceCache,
          clock, cachedHistoricalData, files, selector, call>>

-----------------------------------------------------------------------------
(* Bounds of the model *)

\* longest prices array that is enumerated
MaxLen == 3
\* largest finite price / amount that is enumerated
MaxPrice == 2
\* days before the series start and after its end that lookups reach
Margin == 2

-----------------------------------------------------------------------------
(* Time and calendar: what the engine's Date does *)

\* ticks per day (the code divides by 1000 * 60 * 60 * 24 ms)
TicksPerDay == 4

Throw(msg) == [ok |-> FALSE, err |-> msg]

Return(v) == [ok |-> TRUE, val |-> v]

\* Day(t): the whole UTC day number containing instant t
UTCDay(t) == t \div TicksPerDay

IsLeap(y) == (y % 4 = 0 /\ y % 100 # 0) \/ y % 400 = 0

DaysInMonth(y, m) ==
    IF m = 2 THEN (IF IsLeap(y) THEN 29 ELSE 28)
    ELSE IF m \in {4, 6, 9, 11} THEN 30 ELSE 31

\* day number (days since 1970-01-01) of the civil date y-m-d; d may lie
\* outside the month, as in Date.prototype.setUTCDate (MakeDay)
DaysFromCivil(y, m, d) ==
    LET yy  == IF m <= 2 THEN y - 1 ELSE y
        era == yy \div 400
        yoe == yy - era * 400
        mp  == IF m > 2 THEN m - 3 ELSE m + 9
        doy == (153 * mp + 2) \div 5 + d - 1
        doe == yoe * 365 + yoe \div 4 - yoe \div 100 + doy
    IN  era * 146097 + doe - 719468

\* civil date <<y, m, d>> of a day number
CivilFromDays(z) ==
    LET zz  == z + 719468
        era == zz \div 146097
        doe == zz - era * 146097
        yoe == (doe - doe \div 1460 + doe \div 36524 - doe \div 146096) \div 365
        doy == doe - (365 * yoe + yoe \div 4 - yoe \div 100)
        mp  == (5 * doy + 2) \div 153
        d   == doy - (153 * mp + 2) \div 5 + 1
        m   == IF mp < 10 THEN mp + 3 ELSE mp - 9
        y   == yoe + era * 400 + (IF m <= 2 THEN 1 ELSE 0)
    IN  <<y, m, d>>

\* day of the week of a day number, 0 = Sunday (1970-01-01 was a Thursday)
WeekDay(z) == (z + 4) % 7

\* a string value: wf says that the text has the shape YYYY-MM-DD
DateString(ymd) == [t |-> "str", empty |-> FALSE, wf |-> TRUE, ymd |-> ymd]

Garbage == [t |-> "str", empty |-> FALSE, wf |-> FALSE, ymd |-> <<0, 0, 0>>]

EmptyString == [t |-> "str", empty |-> TRUE, wf |-> FALSE, ymd |-> <<0, 0, 0>>]

Undefined == [t |-> "undefined", empty |-> FALSE, wf |-> FALSE, ymd |-> <<0, 0, 0>>]

NullValue == [t |-> "null", empty |-> FALSE, wf |-> FALSE, ymd |-> <<0, 0, 0>>]

NumberValue == [t |-> "num", empty |-> FALSE, wf |-> FALSE, ymd |-> <<0, 0, 0>>]

\* new Date(s + 'T00:00:00.000Z') has a time value (is not Invalid Date)
IsValidDateString(s) ==
    /\ s.t = "str"
    /\ s.wf
    /\ s.ymd[2] \in 1..12
    /\ s.ymd[3] \in 1..DaysInMonth(s.ymd[1], s.ymd[2])

parseDate(dateString) ==
    IF IsValidDateString(dateString)
    THEN Return(DaysFromCivil(dateString.ymd[1], dateString.ymd[2], dateString.ymd[3])
                * TicksPerDay)
    ELSE Throw("Invalid date format")

\* the calendar day of the local time zone instead of the UTC day
formatDateLocal(date) == DateString(CivilFromDays((date + tz) \div TicksPerDay))

\* date.toISOString().split('T')[0]
formatDate(date) == DateString(CivilFromDays(UTCDay(date)))

\* day arithmetic that stops at the last day of the month
calculateDateClamped(startDate, daysToAdd) ==
    LET p == parseDate(startDate)
    IN  IF ~p.ok THEN p
        ELSE LET c    == CivilFromDays(UTCDay(p.val))
                 last == DaysInMonth(c[1], c[2])
                 d    == IF c[3] + daysToAdd > last THEN last ELSE c[3] + daysToAdd
             IN  Return(formatDate(DaysFromCivil(c[1], c[2], d) * TicksPerDay))

\* parseDate, setUTCDate(getUTCDate() + daysToAdd), formatDate
calculateDate(startDate, daysToAdd) ==
    LET p == parseDate(startDate)
    IN  IF ~p.ok THEN p
        ELSE LET c == CivilFromDays(UTCDay(p.val))
                 t == DaysFromCivil(c[1], c[2], c[3] + daysToAdd) * TicksPerDay
                      + (p.val % TicksPerDay)
             IN  Return(formatDate(t))

-----------------------------------------------------------------------------
(* JavaScript numbers *)

Num(v) == [t |-> "num", v |-> v]

NaN == [t |-> "nan", v |-> 0]

Infinity == [t |-> "inf", v |-> 0]

NegInfinity == [t |-> "ninf", v |-> 0]

NotANumber == [t |-> "str", v |-> 0]

\* typeof x === 'number'
IsNumberType(x) == x.t \in {"num", "nan", "inf", "ninf"}

\* x < 0
LtZero(x) == (x.t = "num" /\ x.v < 0) \/ x.t = "ninf"

\* x <= 0
LeZero(x) == (x.t = "num" /\ x.v <= 0) \/ x.t = "ninf"

IsFiniteNumber(x) == x.t = "num"

-----------------------------------------------------------------------------
(* Historical series store: js/data/historicalData.js *)

\* a zone whose offset never changes
NoChange == [at |-> 0, shift |-> 0]

\* the offset of local time from UTC at an instant
OffsetAt(t) ==
    IF zoneChange.shift # 0 /\ t >= zoneChange.at THEN tz + zoneChange.shift ELSE tz

RawObject(start, prices) == [kind |-> "object", start |-> start, prices |-> prices]

Array(a) == [t |-> "array", a |-> a]

NoArray(t) == [t |-> t, a |-> <<>>]

\* a filter that rejects a price of zero as well
InvalidPriceOrZero(price) == ~IsNumberType(price) \/ price.t = "nan" \/ LeZero(price)

\* the price is rejected by the filter of parseHistoricalData
InvalidPrice(price) == ~IsNumberType(price) \/ price.t = "nan" \/ LtZero(price)

parseHistoricalData(data) ==
    IF data.kind # "object"
    THEN Throw("Invalid historical data: must be an object")
    ELSE IF data.start.t # "str" \/ data.start.empty
    THEN Throw("Invalid historical data: missing or invalid start date")
    ELSE IF data.prices.t # "array"
    THEN Throw("Invalid historical data: prices must be an array")
    ELSE IF Len(data.prices.a) = 0
    THEN Throw("Invalid historical data: prices array is empty")
    ELSE LET startDate == parseDate(data.start)
             invalidPrices == {i \in 1..Len(data.prices.a) : InvalidPrice(data.prices.a[i])}
         IN  IF ~startDate.ok THEN startDate
             ELSE IF Cardinality(invalidPrices) > 0
             THEN Throw("Invalid historical data: found invalid prices")
             ELSE LET endDate == calculateDate(data.start, Len(data.prices.a) - 1)
                  IN  Return([start     |-> data.start,
                              startDate |-> startDate.val,
                              endDate   |-> parseDate(endDate.val).val,
                              prices    |-> data.prices.a,
                              totalDays |-> Len(data.prices.a)])

\* a target date: a Date object (its time value), a string or anything else
DateObject(t) == [t |-> "date", time |-> t, str |-> Garbage]

StringTarget(s) == [t |-> "str", time |-> 0, str |-> s]

OtherTarget == [t |-> "other", time |-> 0, str |-> Garbage]

NoPrice == [found |-> FALSE, date |-> Garbage, price |-> NaN]

PriceInfo(date, price) == [found |-> TRUE, date |-> date, price |-> price]

\* a lookup that truncates toward zero instead of flooring
DaysDiffTruncated(target, startDate) ==
    IF target >= startDate THEN (target - startDate) \div TicksPerDay
    ELSE -((startDate - target) \div TicksPerDay)

\* Math.floor((target - startDate) / (1000 * 60 * 60 * 24))
DaysDiff(target, startDate) == (target - startDate) \div TicksPerDay

\* prices is indexed from 0 in the code and from 1 here
getPriceForDate(historicalData, targetDate) ==
    LET target == IF targetDate.t = "date" THEN Return(targetDate.time)
                  ELSE IF targetDate.t = "str" THEN parseDate(targetDate.str)
                  ELSE Throw("Target date must be a string (YYYY-MM-DD) or Date object")
    IN  IF ~target.ok THEN target
        ELSE LET daysDiff == DaysDiff(target.val, historicalData.startDate)
             IN  IF daysDiff < 0 \/ daysDiff >= Len(historicalData.prices)
                 THEN Return(NoPrice)
                 ELSE Return(PriceInfo(formatDate(target.val),
                                       historicalData.prices[daysDiff + 1]))

\* the first point of the series instead of the last
getEarliestPrice(historicalData) ==
    PriceInfo(calculateDate(historicalData.start, 0).val, historicalData.prices[1])

getLatestPrice(historicalData) ==
    LET latestIndex == Len(historicalData.prices) - 1
        latestDate  == calculateDate(historicalData.start, latestIndex)
    IN  PriceInfo(latestDate.val, historicalData.prices[latestIndex + 1])

\* a range test that rejects from = to as well
RangeInvertedOrEmpty(start, end) == start >= end

\* start > end
RangeInverted(start, end) == start > end

Max(a, b) == IF a >= b THEN a ELSE b

Min(a, b) == IF a <= b THEN a ELSE b

\* the loop of getPriceRange runs i from actualStart to actualEnd; the k-th
\* entry pushed is the one of i = actualStart + k - 1
getPriceRange(historicalData, startDate, endDate) ==
    LET start == parseDate(startDate)
        end   == parseDate(endDate)
    IN  IF ~start.ok THEN start
        ELSE IF ~end.ok THEN end
        ELSE IF RangeInverted(start.val, end.val)
        THEN Throw("Start date must be before end date")
        ELSE LET startDiff   == DaysDiff(start.val, historicalData.startDate)
                 endDiff     == DaysDiff(end.val, historicalData.startDate)
                 actualStart == Max(0, startDiff)
                 actualEnd   == Min(Len(historicalData.prices) - 1, endDiff)
                 count       == Max(0, actualEnd - actualStart + 1)
             IN  Return([k \in 1..count |->
                     PriceInfo(calculateDate(historicalData.start, actualStart + k - 1).val,
                               historicalData.prices[actualStart + k])])

-----------------------------------------------------------------------------
(* Arithmetic of JavaScript numbers *)

SignOfInt(v) == IF v > 0 THEN 1 ELSE IF v < 0 THEN -1 ELSE 0

\* sign of a number that is not NaN: -1, 0 or 1
SignOf(x) ==
    CASE x.t = "num"  -> SignOfInt(x.v)
      [] x.t = "quot" -> SignOfInt(x.n) * SignOfInt(x.d)
      [] x.t = "inf"  -> 1
      [] x.t = "ninf" -> -1

Signed(sign) == IF sign > 0 THEN Infinity ELSE NegInfinity

\* a * b
Mul(a, b) ==
    IF a.t = "nan" \/ b.t = "nan" THEN NaN
    ELSE IF a.t = "num" /\ b.t = "num" THEN Num(a.v * b.v)
    ELSE IF SignOf(a) * SignOf(b) = 0 THEN NaN
    ELSE Signed(SignOf(a) * SignOf(b))

\* a - b
Sub(a, b) ==
    IF a.t = "nan" \/ b.t = "nan" THEN NaN
    ELSE IF a.t = "num" /\ b.t = "num" THEN Num(a.v - b.v)
    ELSE IF a.t = b.t THEN NaN
    ELSE IF a.t = "num" THEN Signed(-SignOf(b))
    ELSE Signed(SignOf(a))

\* a / b, kept as the quotient of two integers when both are finite
Div(a, b) ==
    IF a.t = "nan" \/ b.t = "nan" THEN NaN
    ELSE IF a.t = "num" /\ b.t = "num"
         THEN IF b.v # 0 THEN [t |-> "quot", n |-> a.v, d |-> b.v]
              ELSE IF a.v = 0 THEN NaN ELSE Signed(SignOfInt(a.v))
    ELSE IF a.t # "num" /\ b.t # "num" THEN NaN
    ELSE IF a.t = "num" THEN Num(0)
    ELSE IF b.v = 0 THEN Signed(SignOf(a))
    ELSE Signed(SignOf(a) * SignOf(b))

-----------------------------------------------------------------------------
(* Metrics engine: js/business/portfolio.js *)

\* the price of one coin instead of the value of the holding
calculateTotalValuePerCoin(btcAmount, currentPrice) ==
    IF ~IsNumberType(btcAmount) \/ ~IsNumberType(currentPrice)
    THEN Throw("BTC amount and current price must be numbers")
    ELSE IF LtZero(btcAmount) \/ LtZero(currentPrice)
    THEN Throw("BTC amount and current price must be non-negative")
    ELSE Return(currentPrice)

calculateTotalValue(btcAmount, currentPrice) ==
    IF ~IsNumberType(btcAmount) \/ ~IsNumberType(currentPrice)
    THEN Throw("BTC amount and current price must be numbers")
    ELSE IF LtZero(btcAmount) \/ LtZero(currentPrice)
    THEN Throw("BTC amount and current price must be non-negative")
    ELSE Return(Mul(btcAmount, currentPrice))

\* the gain with the two values subtracted the wrong way round
calculateAbsoluteGainSwapped(btcAmount, currentPrice, purchasePrice) ==
    IF ~IsNumberType(btcAmount) \/ ~IsNumberType(currentPrice) \/ ~IsNumberType(purchasePrice)
    THEN Throw("All parameters must be numbers")
    ELSE IF LtZero(btcAmount) \/ LtZero(currentPrice) \/ LtZero(purchasePrice)
    THEN Throw("All parameters must be non-negative")
    ELSE Return(Sub(Mul(btcAmount, purchasePrice), Mul(btcAmount, currentPrice)))

calculateAbsoluteGain(btcAmount, currentPrice, purchasePrice) ==
    IF ~IsNumberType(btcAmount) \/ ~IsNumberType(currentPrice) \/ ~IsNumberType(purchasePrice)
    THEN Throw("All parameters must be numbers")
    ELSE IF LtZero(btcAmount) \/ LtZero(currentPrice) \/ LtZero(purchasePrice)
    THEN Throw("All parameters must be non-negative")
    ELSE LET currentValue  == Mul(btcAmount, currentPrice)
             purchaseValue == Mul(btcAmount, purchasePrice)
         IN  Return(Sub(currentValue, purchaseValue))

calculatePercentageGain(currentPrice, purchasePrice) ==
    IF ~IsNumberType(currentPrice) \/ ~IsNumberType(purchasePrice)
    THEN Throw("Current price and purchase price must be numbers")
    ELSE IF LtZero(currentPrice) \/ LeZero(purchasePrice)
    THEN Throw("Prices must be positive numbers")
    ELSE Return(Div(Sub(currentPrice, purchasePrice), purchasePrice))

\* years is the quotient [n, d] with d > 0; years <= 0
YearsLeZero(years) == years.n <= 0

\* Math.pow(currentPrice / purchasePrice, 1 / years) - 1, kept as the term
PowMinusOne(currentPrice, purchasePrice, years) ==
    [t |-> "pow", base |-> Div(currentPrice, purchasePrice), years |-> years]

calculateCAGR(currentPrice, purchasePrice, years) ==
    IF ~IsNumberType(currentPrice) \/ ~IsNumberType(purchasePrice)
    THEN Throw("All parameters must be numbers")
    ELSE IF LeZero(currentPrice) \/ LeZero(purchasePrice) \/ YearsLeZero(years)
    THEN Throw("All parameters must be positive numbers")
    ELSE Return(PowMinusOne(currentPrice, purchasePrice, years))

\* daysDiff / 365.25 with daysDiff = ticks / TicksPerDay: 4 * ticks / (1461 * TicksPerDay)
calculateYearsBetweenDates(startDate, endDate) ==
    IF startDate >= endDate
    THEN Throw("Start date must be before end date")
    ELSE Return([t |-> "quot", n |-> 4 * (endDate - startDate), d |-> 1461 * TicksPerDay])

MIN_DAYS_FOR_CAGR == 30

\* MIN_DAYS_FOR_CAGR / 365.25
minYearsForCAGR == [t |-> "quot", n |-> 4 * MIN_DAYS_FOR_CAGR, d |-> 1461]

\* a < b for quotients with positive denominators
QuotLess(a, b) == a.n * b.d < b.n * a.d

\* the gate closed for a period of exactly 30 days as well
YearsBelowGateInclusive(years) == ~QuotLess(minYearsForCAGR, years)

\* years < minYearsForCAGR
YearsBelowGate(years) == QuotLess(years, minYearsForCAGR)

JSNull == [t |-> "null"]

calculateDisplayCAGR(currentPrice, purchasePrice, years) ==
    IF YearsBelowGate(years)
    THEN Return(JSNull)
    ELSE calculateCAGR(currentPrice, purchasePrice, years)

calculatePortfolioMetrics(btcAmount, currentPrice, purchasePrice, purchaseDate, currentDate) ==
    LET totalValue     == calculateTotalValue(btcAmount, currentPrice)
        absoluteGain   == calculateAbsoluteGain(btcAmount, currentPrice, purchasePrice)
        percentageGain == calculatePercentageGain(currentPrice, purchasePrice)
        years          == calculateYearsBetweenDates(purchaseDate, currentDate)
        cagr           == calculateCAGR(currentPrice, purchasePrice, years.val)
        displayCAGR    == calculateDisplayCAGR(currentPrice, purchasePrice, years.val)
    IN  IF ~totalValue.ok THEN totalValue
        ELSE IF ~absoluteGain.ok THEN absoluteGain
        ELSE IF ~percentageGain.ok THEN percentageGain
        ELSE IF ~years.ok THEN years
        ELSE IF ~cagr.ok THEN cagr
        ELSE IF ~displayCAGR.ok THEN displayCAGR
        ELSE Return([totalValue     |-> totalValue.val,
                     absoluteGain   |-> absoluteGain.val,
                     percentageGain |-> percentageGain.val,
                     cagr           |-> cagr.val,
                     displayCAGR    |-> displayCAGR.val,
                     years          |-> years.val,
                     initialValue   |-> Mul(btcAmount, purchasePrice)])

-----------------------------------------------------------------------------
(* Time windows: js/business/timeWindows.js *)

WindowIds == {"1d", "wtd", "mtd", "ytd", "7d", "30d", "3mo", "6mo", "1y", "5y", "all"}

\* days is 0 where the code has null (calendar windows) or Infinity ('all');
\* the code never computes with those two
TIME_WINDOWS ==
    [w \in WindowIds |->
        CASE w = "1d"  -> [days |-> 1,    type |-> "daily"]
          [] w = "wtd" -> [days |-> 0,    type |-> "calendar"]
          [] w = "mtd" -> [days |-> 0,    type |-> "calendar"]
          [] w = "ytd" -> [days |-> 0,    type |-> "calendar"]
          [] w = "7d"  -> [days |-> 7,    type |-> "fixed"]
          [] w = "30d" -> [days |-> 30,   type |-> "fixed"]
          [] w = "3mo" -> [days |-> 90,   type |-> "fixed"]
          [] w = "6mo" -> [days |-> 180,  type |-> "fixed"]
          [] w = "1y"  -> [days |-> 365,  type |-> "fixed"]
          [] w = "5y"  -> [days |-> 1825, type |-> "fixed"]
          [] w = "all" -> [days |-> 0,    type |-> "fixed"]]

\* the local calendar day number of an instant (getFullYear, getMonth,
\* getDate and getDay read the fields of this day)
LocalDay(t) == (t + OffsetAt(t)) \div TicksPerDay

\* the instant of 00:00 local time of a local day (setHours(0, 0, 0, 0));
\* a zone change never falls on a local midnight
LocalMidnight(localDay) ==
    LET t == localDay * TicksPerDay - tz
    IN  IF zoneChange.shift = 0 \/ t < zoneChange.at THEN t ELSE t - zoneChange.shift

getStartOfWeek(date) ==
    LET day  == WeekDay(LocalDay(date))
        diff == LocalDay(date) - day + (IF day = 0 THEN -6 ELSE 1)
    IN  LocalMidnight(diff)

getStartOfMonth(date) ==
    LET c == CivilFromDays(LocalDay(date))
    IN  LocalMidnight(DaysFromCivil(c[1], c[2], 1))

getStartOfYear(date) ==
    LET c == CivilFromDays(LocalDay(date))
    IN  LocalMidnight(DaysFromCivil(c[1], 1, 1))

\* getStartOfYesterday without the step back of one day
getStartOfToday(date) == LocalMidnight(LocalDay(date))

getStartOfYesterday(date) == LocalMidnight(LocalDay(date) - 1)

getCalendarStartDate(timeWindow, referenceDate) ==
    CASE timeWindow = "1d"  -> Return(getStartOfYesterday(referenceDate))
      [] timeWindow = "wtd" -> Return(getStartOfWeek(referenceDate))
      [] timeWindow = "mtd" -> Return(getStartOfMonth(referenceDate))
      [] timeWindow = "ytd" -> Return(getStartOfYear(referenceDate))
      [] OTHER -> Throw("Invalid calendar time window")

\* property names that every object inherits from Object.prototype
InheritedKeys == {"toString", "constructor"}

\* TIME_WINDOWS[key]: a window configuration, an inherited function, or
\* undefined
LookupTimeWindow(key) ==
    IF key \in WindowIds THEN "config"
    ELSE IF key \in InheritedKeys THEN "function"
    ELSE "undefined"

\* typeof timeWindow === 'string' && timeWindow in TIME_WINDOWS, for a string
isValidTimeWindow(timeWindow) == timeWindow \in WindowIds \cup InheritedKeys

\* targetDate.setDate(targetDate.getDate() - daysAgo); daysAgo is a number
\* for the configured windows only
getDateDaysAgo(referenceDate, timeWindow) ==
    IF LookupTimeWindow(timeWindow) # "config"
    THEN Throw("Days ago must be a non-negative number")
    ELSE Return(referenceDate - TIME_WINDOWS[timeWindow].days * TicksPerDay)

\* the {date, price} points that updateDisplay builds from the series
PriceDataOf(historicalData) ==
    [i \in 1..Len(historicalData.prices) |->
        [date  |-> parseDate(historicalData.start).val + (i - 1) * TicksPerDay,
         price |-> historicalData.prices[i]]]

filterByTimeWindow(priceData, timeWindow, referenceDate) ==
    IF LookupTimeWindow(timeWindow) = "undefined"
    THEN Throw("Invalid time window")
    ELSE IF timeWindow = "all" THEN Return(priceData)
    ELSE LET cutoffDate ==
                 IF /\ LookupTimeWindow(timeWindow) = "config"
                    /\ TIME_WINDOWS[timeWindow].type \in {"calendar", "daily"}
                 THEN getCalendarStartDate(timeWindow, referenceDate)
                 ELSE getDateDaysAgo(referenceDate, timeWindow)
         IN  IF ~cutoffDate.ok THEN cutoffDate
             ELSE Return(SelectSeq(priceData, LAMBDA dataPoint : dataPoint.date >= cutoffDate.val))

\* the period parameter of the URL; a missing parameter is the empty string
getTimeWindowFromUrl(periodParam) ==
    IF periodParam # "" /\ LookupTimeWindow(periodParam) # "undefined"
    THEN periodParam
    ELSE "all"

-----------------------------------------------------------------------------
(* Library specification: a caller parses one raw object and queries it *)

NoSeries ==
    [start |-> Garbage, startDate |-> 0, endDate |-> 0, prices |-> <<>>, totalDays |-> 0]

NoCall == [op |-> "none"]

NoInput ==
    [btcAmount |-> Num(0), currentPrice |-> Num(0), purchasePrice |-> Num(0),
     purchaseDate |-> 0, currentDate |-> 0]

\* time zone offsets of the engine: UTC-6, UTC, UTC+6
TzOffsets == {-1, 0, 1}

SeqsUpTo(S, n) == UNION {[1..k -> S] : k \in 0..n}

PriceValues == {Num(v) : v \in -1..MaxPrice} \cup {NaN, Infinity, NegInfinity, NotANumber}

ValidStarts == {DateString(<<2024, 12, 30>>), DateString(<<2024, 2, 28>>)}

StartValues ==
    ValidStarts \cup {Undefined, NullValue, NumberValue, EmptyString, Garbage,
                      DateString(<<2024, 13, 1>>)}

PricesValues ==
    {Array(a) : a \in SeqsUpTo(PriceValues, MaxLen)} \cup {NoArray("undefined"), NoArray("null")}

RawInputs ==
    {RawObject(s, p) : s \in StartValues, p \in PricesValues}
    \cup {[kind |-> k, start |-> Undefined, prices |-> NoArray("undefined")] : k \in {"null", "string"}}

\* instants from Margin days before the series to Margin days after it
InstantsAround(s) ==
    (s.startDate - Margin * TicksPerDay) .. (s.endDate + (Margin + 1) * TicksPerDay - 1)

Targets(s) ==
    {DateObject(t) : t \in InstantsAround(s)}
    \cup {StringTarget(formatDate(t)) : t \in InstantsAround(s)}
    \cup {StringTarget(Garbage), OtherTarget}

\* no entry under CACHE_KEY
NoEntry == [kind |-> "none", price |-> Num(0), timestamp |-> 0]

\* a range selector over no values
NoSelector ==
    [len |-> 0, maxIndex |-> 0, startIndex |-> 0, endIndex |-> 0,
     activeHandle |-> "none", dragAnchorIndex |-> 0, dragRangeSize |-> 0]

NoFiles == <<>>

NotSettled == [historicalData |-> "pending", currentPrice |-> "pending", value |-> Num(0)]

\* a url parameter that is absent (get returns null)
NoBtcParam == [t |-> "null", num |-> NaN]

NoUrl == [btc |-> NoBtcParam, period |-> ""]

ServiceIdle ==
    /\ priceCache = NoEntry
    /\ clock = 0
    /\ cachedHistoricalData = NoSeries
    /\ files = NoFiles
    /\ selector = NoSelector

ServiceUnchanged == UNCHANGED <<zoneChange, priceCache, clock, cachedHistoricalData, files, selector>>

CoordinatorIdle ==
    /\ now = 0
    /\ globalHistoricalData = NoSeries
    /\ globalCurrentPrice = Num(0)
    /\ globalBtcAmount = Num(1)
    /\ currentTimeWindow = "all"
    /\ priceSource = "none"
    /\ metricsView = [kind |-> "none"]
    /\ lastUpdate = [window |-> "none", at |-> 0]
    /\ loadedAt = 0
    /\ phase = "start"
    /\ enabledButtons = {}
    /\ settled = NotSettled
    /\ url = NoUrl

AppIdle == CoordinatorIdle /\ ServiceIdle

\* no call of the library is in progress and no raw object is held
LibIdle ==
    /\ zoneChange = NoChange
    /\ rawData = RawObject(Undefined, NoArray("undefined"))
    /\ series = NoSeries
    /\ metricsInput = NoInput
    /\ call = NoCall

AppUnchanged ==
    /\ UNCHANGED <<now, globalHistoricalData, globalCurrentPrice, globalBtcAmount,
                   currentTimeWindow, priceSource, metricsView, lastUpdate, loadedAt,
                   phase, enabledButtons, settled, url>>
    /\ ServiceUnchanged

InitLib ==
    /\ tz \in TzOffsets
    /\ zoneChange = NoChange
    /\ rawData \in RawInputs
    /\ series = NoSeries
    /\ metricsInput = NoInput
    /\ call = NoCall
    /\ AppIdle

\* the caller holds a series and makes one call after parsing the raw object
CanQuery ==
    /\ series # NoSeries
    /\ call.op = "parseHistoricalData"

ParseHistoricalData ==
    /\ call.op = "none"
    /\ LET r == parseHistoricalData(rawData)
       IN  /\ call' = [op |-> "parseHistoricalData", res |-> r]
           /\ series' = IF r.ok THEN r.val ELSE series
    /\ UNCHANGED <<tz, rawData, metricsInput>>
    /\ AppUnchanged

GetPriceForDate ==
    /\ CanQuery
    /\ \E target \in Targets(series) :
           call' = [op |-> "getPriceForDate", target |-> target,
                    res |-> getPriceForDate(series, target)]
    /\ UNCHANGED <<tz, rawData, series, metricsInput>>
    /\ AppUnchanged

GetStartOfYesterday ==
    /\ CanQuery
    /\ \E date \in InstantsAround(series) :
           call' = [op |-> "getStartOfYesterday", date |-> date,
                    res |-> getStartOfYesterday(date),
                    price |-> getPriceForDate(series, DateObject(getStartOfYesterday(date)))]
    /\ UNCHANGED <<tz, rawData, series, metricsInput>>
    /\ AppUnchanged

\* 'YYYY-MM-DD' strings of the days around the series, and a malformed one
DayStrings(s) ==
    {formatDate(t) : t \in {u \in InstantsAround(s) : u % TicksPerDay = 0}} \cup {Garbage}

GetPriceRange ==
    /\ CanQuery
    /\ \E startDate \in DayStrings(series), endDate \in DayStrings(series) :
           call' = [op |-> "getPriceRange", startDate |-> startDate, endDate |-> endDate,
                    res |-> getPriceRange(series, startDate, endDate)]
    /\ UNCHANGED <<tz, rawData, series, metricsInput>>
    /\ AppUnchanged

GetLatestPrice ==
    /\ CanQuery
    /\ call' = [op |-> "getLatestPrice", res |-> getLatestPrice(series)]
    /\ UNCHANGED <<tz, rawData, series, metricsInput>>
    /\ AppUnchanged

\* the windows whose start the callers take from getCalendarStartDate
CalendarWindows == {w \in WindowIds : TIME_WINDOWS[w].type \in {"calendar", "daily"}}

GetCalendarStartDate ==
    /\ CanQuery
    /\ \E timeWindow \in CalendarWindows, referenceDate \in InstantsAround(series) :
           call' = [op |-> "getCalendarStartDate", timeWindow |-> timeWindow,
                    date |-> referenceDate,
                    res |-> getCalendarStartDate(timeWindow, referenceDate)]
    /\ UNCHANGED <<tz, rawData, series, metricsInput>>
    /\ AppUnchanged

\* window ids handed to the validation functions: the configured ids, the
\* inherited property names, the id of the 10Y button and the empty string
PeriodStrings == WindowIds \cup InheritedKeys \cup {"10y", ""}

IsValidTimeWindow ==
    /\ CanQuery
    /\ \E timeWindow \in PeriodStrings :
           call' = [op |-> "isValidTimeWindow", timeWindow |-> timeWindow,
                    res |-> isValidTimeWindow(timeWindow)]
    /\ UNCHANGED <<tz, rawData, series, metricsInput>>
    /\ AppUnchanged

GetTimeWindowFromUrl ==
    /\ CanQuery
    /\ \E periodParam \in PeriodStrings :
           call' = [op |-> "getTimeWindowFromUrl", timeWindow |-> periodParam,
                    res |-> getTimeWindowFromUrl(periodParam)]
    /\ UNCHANGED <<tz, rawData, series, metricsInput>>
    /\ AppUnchanged

FilterByTimeWindow ==
    /\ CanQuery
    /\ \E timeWindow \in PeriodStrings :
           call' = [op |-> "filterByTimeWindow", timeWindow |-> timeWindow,
                    date |-> series.endDate + 1,
                    res |-> filterByTimeWindow(PriceDataOf(series), timeWindow,
                                               series.endDate + 1)]
    /\ UNCHANGED <<tz, rawData, series, metricsInput>>
    /\ AppUnchanged

\* most days that one calculateDate call adds
MaxDays == 3

\* start dates before the end of a year, of a 31-day month, of February in a
\* leap year and in a common year
DateStarts ==
    {DateString(<<2024, 12, 30>>), DateString(<<2024, 1, 31>>),
     DateString(<<2024, 2, 28>>), DateString(<<2023, 2, 28>>)}

\* calculateDate(s, 0), calculateDate(s, a), calculateDate(calculateDate(s, a), b),
\* calculateDate(s, a + b) and calculateDate(s, a + 1)
CalculateDate ==
    /\ CanQuery
    /\ \E startDate \in DateStarts, a \in -1..MaxDays, b \in -1..MaxDays :
           call' = [op |-> "calculateDate", startDate |-> startDate, a |-> a, b |-> b,
                    zero  |-> calculateDate(startDate, 0),
                    first |-> calculateDate(startDate, a),
                    then  |-> calculateDate(calculateDate(startDate, a).val, b),
                    sum   |-> calculateDate(startDate, a + b),
                    next  |-> calculateDate(startDate, a + 1)]
    /\ UNCHANGED <<tz, rawData, series, metricsInput>>
    /\ AppUnchanged

\* the caller changes the raw object after parsing it: data.start = s or
\* data.prices[i] = v.  The series was built with prices: data.prices, the
\* same array object as data.prices, so an element written through the raw
\* object is read through the series as well; start is a string, and
\* assigning data.start leaves the start of the series alone.
MutateRawData ==
    /\ CanQuery
    /\ \/ \E s \in ValidStarts :
             /\ rawData' = [rawData EXCEPT !.start = s]
             /\ UNCHANGED series
       \/ \E i \in 1..Len(rawData.prices.a), v \in 0..MaxPrice :
             /\ rawData' = [rawData EXCEPT !.prices.a[i] = Num(v)]
             /\ series' = [series EXCEPT !.prices[i] = Num(v)]
    /\ call' = [op |-> "mutateRawData"]
    /\ UNCHANGED <<tz, metricsInput>>
    /\ AppUnchanged

NextLib ==
    \/ ParseHistoricalData
    \/ GetPriceForDate
    \/ GetStartOfYesterday
    \/ GetPriceRange
    \/ GetLatestPrice
    \/ GetCalendarStartDate
    \/ IsValidTimeWindow
    \/ GetTimeWindowFromUrl
    \/ FilterByTimeWindow
    \/ CalculateDate
    \/ MutateRawData

SpecLib == InitLib /\ [][NextLib]_vars

-----------------------------------------------------------------------------
(* Claims about the series store and the 1-day window *)

TargetIsDate(target) ==
    target.t = "date" \/ (target.t = "str" /\ IsValidDateString(target.str))

TargetInstant(target) ==
    IF target.t = "date" THEN target.time ELSE parseDate(target.str).val

\* C1: getPriceForDate(series, d) returns {date: the UTC calendar day of d,
\* price: prices[i]} when the UTC day of d is startDate + i days with
\* 0 <= i < len(prices), whatever the time of day of d, and returns null
\* without throwing for every d before startDate or after endDate.
C1_LookupByUTCDay ==
    (call.op = "getPriceForDate" /\ TargetIsDate(call.target)) =>
        LET d == TargetInstant(call.target)
            i == UTCDay(d) - UTCDay(series.startDate)
        IN  /\ call.res.ok
            /\ IF 0 <= i /\ i < Len(series.prices)
               THEN /\ call.res.val.found
                    /\ call.res.val.date = calculateDate(series.start, i).val
                    /\ call.res.val.price = series.prices[i + 1]
               ELSE call.res.val = NoPrice

\* a lookup by a Date that is not at midnight finds the last day of a series
\* of several days
C1_Witness ==
    /\ call.op = "getPriceForDate"
    /\ call.target.t = "date"
    /\ call.target.time % TicksPerDay # 0
    /\ call.res.ok
    /\ call.res.val.found
    /\ Len(series.prices) > 1
    /\ call.res.val.price = series.prices[Len(series.prices)]

\* C2: for every now, the 1-day window resolves to 00:00 UTC of the calendar
\* day immediately preceding now's calendar day, and the series lookup for
\* that start returns yesterday's price.
C2_YesterdayIsUTCMidnight ==
    call.op = "getStartOfYesterday" =>
        LET yesterday == (UTCDay(call.date) - 1) * TicksPerDay
        IN  /\ call.res = yesterday
            /\ call.price = getPriceForDate(series, DateObject(yesterday))

-----------------------------------------------------------------------------
(* Metrics specification: a caller computes the metrics of one input *)

\* amounts and prices: finite numbers from -1 to MaxPrice, NaN and Infinity
MetricValues == {Num(v) : v \in -1..MaxPrice} \cup {NaN, Infinity}

\* 2024-12-16T12:00Z, the current date of the 1-day tests
TestNow == DaysFromCivil(2024, 12, 16) * TicksPerDay + 2

\* lengths, in ticks, of the periods from purchaseDate to currentDate: none,
\* negative, 6 hours, 1.5 days, around the 30 days of the CAGR gate, 45 days
PeriodTicks ==
    {-1, 0, 1, 6, 45 * TicksPerDay}
    \cup {MIN_DAYS_FOR_CAGR * TicksPerDay + k : k \in {-1, 0, 1}}

InitMetrics ==
    /\ tz = 0
    /\ zoneChange = NoChange
    /\ rawData = RawObject(Undefined, NoArray("undefined"))
    /\ series = NoSeries
    /\ metricsInput \in [btcAmount : MetricValues, currentPrice : MetricValues,
                         purchasePrice : MetricValues,
                         purchaseDate : {TestNow - p : p \in PeriodTicks},
                         currentDate : {TestNow}]
    /\ call = NoCall
    /\ AppIdle

CalculatePortfolioMetrics ==
    /\ call.op = "none"
    /\ call' = [op |-> "calculatePortfolioMetrics",
                res |-> calculatePortfolioMetrics(metricsInput.btcAmount,
                            metricsInput.currentPrice, metricsInput.purchasePrice,
                            metricsInput.purchaseDate, metricsInput.currentDate)]
    /\ UNCHANGED <<tz, rawData, series, metricsInput>>
    /\ AppUnchanged

NextMetrics == CalculatePortfolioMetrics

SpecMetrics == InitMetrics /\ [][NextMetrics]_vars

-----------------------------------------------------------------------------
(* Claims about the metrics engine *)

MetricsReturned == call.op = "calculatePortfolioMetrics" /\ call.res.ok

\* C3: calculatePortfolioMetrics fails exactly when amountHeld < 0, or
\* currentPrice < 0, or startPrice <= 0, or now <= startInstant; for every
\* other numeric input, zero amountHeld and zero currentPrice included, it
\* returns a metrics object.
C3_FailsExactlyOnPreconditions ==
    (/\ call.op = "calculatePortfolioMetrics"
     /\ IsFiniteNumber(metricsInput.btcAmount)
     /\ IsFiniteNumber(metricsInput.currentPrice)
     /\ IsFiniteNumber(metricsInput.purchasePrice)) =>
        (~call.res.ok <=>
            \/ LtZero(metricsInput.btcAmount)
            \/ LtZero(metricsInput.currentPrice)
            \/ LeZero(metricsInput.purchasePrice)
            \/ metricsInput.currentDate <= metricsInput.purchaseDate)

IsNegative(x) == x.t # "nan" /\ SignOf(x) < 0

IsPositive(x) == x.t # "nan" /\ SignOf(x) > 0

IsZero(x) == x.t # "nan" /\ SignOf(x) = 0

\* the sign of currentPrice - startPrice: -1, 0 or 1 (both prices finite)
PriceMove == SignOfInt(metricsInput.currentPrice.v - metricsInput.purchasePrice.v)

HasSign(x, sign) ==
    CASE sign < 0 -> IsNegative(x)
      [] sign > 0 -> IsPositive(x)
      [] OTHER    -> IsZero(x)

FinitePrices ==
    IsFiniteNumber(metricsInput.currentPrice) /\ IsFiniteNumber(metricsInput.purchasePrice)

\* C4 as stated: for every input that calculatePortfolioMetrics accepts, if
\* currentPrice < startPrice then absoluteGain < 0 and percentageGain < 0; if
\* currentPrice > startPrice then both are > 0; if the prices are equal then
\* both are exactly 0.
C4_GainSignForEveryInput ==
    (MetricsReturned /\ FinitePrices) =>
        /\ HasSign(call.res.val.absoluteGain, PriceMove)
        /\ HasSign(call.res.val.percentageGain, PriceMove)

\* C4 amended: for every accepted input with finite prices, percentageGain
\* has the sign of currentPrice - startPrice; absoluteGain has that sign when
\* amountHeld is finite and > 0, and is exactly 0 when amountHeld is 0.
C4_GainSign ==
    (MetricsReturned /\ FinitePrices) =>
        /\ HasSign(call.res.val.percentageGain, PriceMove)
        /\ (IsFiniteNumber(metricsInput.btcAmount) /\ metricsInput.btcAmount.v > 0)
               => HasSign(call.res.val.absoluteGain, PriceMove)
        /\ metricsInput.btcAmount = Num(0) => IsZero(call.res.val.absoluteGain)

\* the price dropped and both gains of a positive holding are negative
C4_Witness ==
    /\ MetricsReturned
    /\ FinitePrices
    /\ metricsInput.btcAmount.t = "num"
    /\ metricsInput.btcAmount.v > 0
    /\ metricsInput.currentPrice.v < metricsInput.purchasePrice.v
    /\ IsNegative(call.res.val.absoluteGain)
    /\ IsNegative(call.res.val.percentageGain)

\* C5: in every metrics object, displayCAGR is null exactly when the period
\* is shorter than 30 days; otherwise displayCAGR is identical to cagr; the
\* raw cagr is present in the result in both cases.
C5_DisplayCAGRGate ==
    MetricsReturned =>
        LET period == metricsInput.currentDate - metricsInput.purchaseDate
            m      == call.res.val
        IN  /\ m.displayCAGR = JSNull <=> period < 30 * TicksPerDay
            /\ m.displayCAGR # JSNull => m.displayCAGR = m.cagr
            /\ m.cagr.t = "pow"
            /\ m.cagr.base = Div(metricsInput.currentPrice, metricsInput.purchasePrice)
            /\ m.cagr.years.n * TicksPerDay * 1461 = 4 * period * m.cagr.years.d

\* a period of exactly 30 days shows the raw CAGR
C5_Witness ==
    /\ MetricsReturned
    /\ metricsInput.currentDate - metricsInput.purchaseDate = 30 * TicksPerDay
    /\ call.res.val.displayCAGR = call.res.val.cagr
    /\ call.res.val.cagr.t = "pow"

-----------------------------------------------------------------------------
(* Claims about parseHistoricalData *)

\* the raw input is one that the contract of parse rejects
Malformed(data) ==
    \/ data.kind # "object"
    \/ data.start.t # "str"
    \/ ~IsValidDateString(data.start)
    \/ data.prices.t # "array"
    \/ Len(data.prices.a) = 0
    \/ \E i \in 1..Len(data.prices.a) :
           LET price == data.prices.a[i]
           IN  price.t = "str" \/ price.t = "nan" \/ price.t = "ninf"
               \/ (price.t = "num" /\ price.v < 0)

\* C9: parseHistoricalData throws a validation error, and returns no series,
\* exactly when the input is not an object, start is missing or not a
\* parseable calendar-date string, prices is missing, not a list or empty, or
\* some price is non-numeric, NaN or negative; a price of zero is accepted.
C9_ParseRejectsExactlyMalformed ==
    call.op = "parseHistoricalData" =>
        /\ ~call.res.ok <=> Malformed(rawData)
        /\ ~call.res.ok => series = NoSeries
        /\ call.res.ok => series = call.res.val /\ series.prices = rawData.prices.a

\* a series with a price of zero was parsed
C9_Witness ==
    /\ call.op = "parseHistoricalData"
    /\ call.res.ok
    /\ \E i \in 1..Len(series.prices) : series.prices[i] = Num(0)

\* C10: every series that parseHistoricalData returns has a non-empty prices
\* list whose every element is a finite number >= 0, with totalDays =
\* len(prices) and endDate = startDate + (len(prices) - 1) days.
C10_SeriesInvariant ==
    series # NoSeries =>
        /\ Len(series.prices) > 0
        /\ \A i \in 1..Len(series.prices) :
               IsFiniteNumber(series.prices[i]) /\ series.prices[i].v >= 0
        /\ series.totalDays = Len(series.prices)
        /\ series.endDate = series.startDate + (Len(series.prices) - 1) * TicksPerDay

-----------------------------------------------------------------------------
(* Application coordinator: js/app.js *)

\* the buttons of index.html: one per window id, and a 10Y button
ButtonIds == WindowIds \cup {"10y"}

EarliestDate(priceData) ==
    CHOOSE d \in {priceData[i].date : i \in 1..Len(priceData)} :
        \A i \in 1..Len(priceData) : d <= priceData[i].date

getAvailableTimeWindows(priceData, referenceDate) ==
    IF Len(priceData) = 0 THEN {}
    ELSE LET earliestDate == EarliestDate(priceData)
             daysSinceEarliest == (referenceDate - earliestDate) \div TicksPerDay
         IN  {w \in WindowIds :
                \/ w = "all"
                \/ /\ w # "all"
                   /\ IF TIME_WINDOWS[w].type \in {"calendar", "daily"}
                      THEN earliestDate <= getCalendarStartDate(w, referenceDate).val
                      ELSE TIME_WINDOWS[w].days <= daysSinceEarliest}

\* start date of a window other than 'all' (setDate(getDate() - days) keeps
\* the time of day)
WindowStartDate(timeWindow, currentDate) ==
    IF TIME_WINDOWS[timeWindow].type \in {"calendar", "daily"}
    THEN getCalendarStartDate(timeWindow, currentDate).val
    ELSE currentDate - TIME_WINDOWS[timeWindow].days * TicksPerDay

ErrorView == [kind |-> "error"]

LoadingView == [kind |-> "loading"]

StaleView(initialValue, purchasePrice) ==
    [kind |-> "stale", initialValue |-> initialValue, purchasePrice |-> purchasePrice]

MetricsView(metrics) == [kind |-> "metrics", metrics |-> metrics]

\* a lookup that falls back to the latest price when the date has none
StartPriceDataOrLatest(historicalData, startDate) ==
    LET found == getPriceForDate(historicalData, DateObject(startDate)).val
    IN  IF found.found THEN found ELSE getLatestPrice(historicalData)

\* the latest point of the series taken as the start of every window
StartPriceDataLatest(historicalData, startDate) == getLatestPrice(historicalData)

StartPriceData(historicalData, startDate) ==
    getPriceForDate(historicalData, DateObject(startDate)).val

\* the 1D stale-data test of updatePortfolioMetricsForTimeWindow
IsStaleWindow(timeWindow, startPriceData, historicalData) ==
    /\ timeWindow = "1d"
    /\ startPriceData.found
    /\ startPriceData.date = getLatestPrice(historicalData).date

\* what the metric elements show after updatePortfolioMetricsForTimeWindow
\* has run at instant t with the given globals
updatePortfolioMetricsForTimeWindow(historicalData, currentPrice, btcAmount, timeWindow, t) ==
    IF historicalData = NoSeries THEN ErrorView
    ELSE IF timeWindow = "all"
    THEN LET purchaseDate == parseDate(historicalData.start).val
             earliestPriceData == StartPriceData(historicalData, purchaseDate)
             metrics == calculatePortfolioMetrics(btcAmount, currentPrice,
                            earliestPriceData.price, purchaseDate, t)
         IN  IF ~earliestPriceData.found THEN LoadingView
             ELSE IF ~metrics.ok THEN ErrorView
             ELSE MetricsView(metrics.val)
    ELSE IF timeWindow \notin WindowIds THEN ErrorView
    ELSE LET startDate == WindowStartDate(timeWindow, t)
             startPriceData == StartPriceData(historicalData, startDate)
             actualStartDate == parseDate(startPriceData.date).val
             years == calculateYearsBetweenDates(actualStartDate, t)
             metrics == calculatePortfolioMetrics(btcAmount, currentPrice,
                            startPriceData.price, actualStartDate, t)
         IN  IF IsStaleWindow(timeWindow, startPriceData, historicalData)
             THEN IF ~years.ok THEN ErrorView
                  ELSE StaleView(Mul(btcAmount, startPriceData.price), startPriceData.price)
             ELSE IF startPriceData.found
             THEN IF ~metrics.ok THEN ErrorView ELSE MetricsView(metrics.val)
             ELSE ErrorView

-----------------------------------------------------------------------------
(* Application specification: init(), then clicks and amount edits *)

\* largest BTC amount that is enumerated
MaxAmount == 1
\* the clock starts on one of the AppDays days after the series start
AppDays == 2
\* ticks that pass after init()
MaxElapsed == 1

\* the series file: starts on Monday 2024-01-01 (start of a week, of a month
\* and of a year), one price per day
AppStart == DateString(<<2024, 1, 1>>)

AppFiles ==
    {RawObject(AppStart, Array(a)) :
        a \in SeqsUpTo({Num(v) : v \in 0..MaxPrice}, MaxLen - 1) \ {<<>>}}
    \cup {RawObject(AppStart, Array(<<>>))}

AppNows ==
    LET s == parseDate(AppStart).val
    IN  (s + TicksPerDay) .. (s + (AppDays + 1) * TicksPerDay - 1)

\* outcomes of getCurrentPrice()
PriceOutcomes == {Return(Num(v)) : v \in 0..MaxPrice} \cup {Throw("API request failed")}

\* amounts that getBtcAmountFromUrl returns
UrlAmounts == {Num(v) : v \in 1..MaxAmount}

\* values typed into the amount input
InputAmounts == {Num(v) : v \in -1..MaxAmount} \cup {NaN}

LibUnchanged ==
    /\ UNCHANGED <<tz, rawData, series, metricsInput, call>>
    /\ ServiceUnchanged

\* the text of a number in a url parameter (Number.prototype.toString)
BtcString(n) == [t |-> "str", num |-> n]

\* parseFloat of a url parameter written by toString
parseFloat(param) == param.num

getBtcAmountFromUrl(btcParam) ==
    IF btcParam.t = "str"
    THEN LET amount == parseFloat(btcParam)
         IN  IF amount.t # "nan" /\ ~LeZero(amount) THEN amount ELSE Num(1)
    ELSE Num(1)

updateUrl(btcAmount, timeWindow) ==
    [btc |-> IF btcAmount # Num(1) THEN BtcString(btcAmount) ELSE NoBtcParam,
     period |-> IF timeWindow # "all" THEN timeWindow ELSE ""]

\* the query strings a page is opened with
UrlBtcParams == {NoBtcParam, BtcString(Num(0))} \cup {BtcString(a) : a \in UrlAmounts}

Urls == [btc : UrlBtcParams, period : PeriodStrings]

InitApp ==
    /\ tz \in TzOffsets
    /\ zoneChange = NoChange
    /\ now \in AppNows
    /\ rawData \in AppFiles
    /\ series = NoSeries
    /\ metricsInput = NoInput
    /\ call = NoCall
    /\ globalHistoricalData = NoSeries
    /\ globalCurrentPrice = Num(0)
    /\ globalBtcAmount = Num(1)
    /\ currentTimeWindow = "all"
    /\ priceSource = "none"
    /\ metricsView = [kind |-> "none"]
    /\ lastUpdate = [window |-> "none", at |-> 0]
    /\ loadedAt = 0
    /\ phase = "start"
    /\ enabledButtons = ButtonIds
    /\ settled = NotSettled
    /\ url \in Urls
    /\ ServiceIdle

\* the latest historical price preferred to the live price
FinalCurrentPriceFromHistory(currentPrice, historicalData) ==
    IF historicalData.ok THEN getLatestPrice(historicalData.val).price
    ELSE currentPrice.val

\* init(): the live price, or the latest historical price when the live
\* price was rejected (init throws when both were rejected)
FinalCurrentPrice(currentPrice, historicalData) ==
    IF currentPrice.ok THEN currentPrice.val
    ELSE getLatestPrice(historicalData.val).price

\* init(): URL parameters, both loads, the fallback, updateDisplay
AppInit ==
    /\ phase = "start"
    /\ \E fetched \in BOOLEAN, currentPrice \in PriceOutcomes :
         LET btcAmount == getBtcAmountFromUrl(url.btc)
             timeWindow == getTimeWindowFromUrl(url.period)
             historicalData ==
                 IF fetched THEN parseHistoricalData(rawData)
                 ELSE Throw("Failed to load historical data")
             finalCurrentPrice == FinalCurrentPrice(currentPrice, historicalData)
             finalHistoricalData ==
                 IF historicalData.ok THEN historicalData.val ELSE NoSeries
         IN  /\ currentTimeWindow' = timeWindow
             /\ loadedAt' = now
             /\ settled' =
                    [historicalData |-> IF historicalData.ok THEN "fulfilled" ELSE "rejected",
                     currentPrice |-> IF currentPrice.ok THEN "fulfilled" ELSE "rejected",
                     value |-> IF currentPrice.ok THEN currentPrice.val ELSE Num(0)]
             /\ IF ~currentPrice.ok /\ ~historicalData.ok
                THEN /\ phase' = "failed"
                     /\ UNCHANGED <<globalHistoricalData, globalCurrentPrice,
                                    globalBtcAmount, priceSource, metricsView,
                                    lastUpdate, enabledButtons, url>>
                ELSE /\ phase' = "ready"
                     /\ priceSource' = IF currentPrice.ok THEN "live" ELSE "fallback"
                     /\ globalCurrentPrice' = finalCurrentPrice
                     /\ globalBtcAmount' = btcAmount
                     /\ globalHistoricalData' = finalHistoricalData
                     /\ IF historicalData.ok
                        THEN /\ enabledButtons' =
                                    getAvailableTimeWindows(PriceDataOf(finalHistoricalData), now)
                             /\ metricsView' = updatePortfolioMetricsForTimeWindow(
                                    finalHistoricalData, finalCurrentPrice, btcAmount,
                                    timeWindow, now)
                             /\ lastUpdate' = [window |-> timeWindow, at |-> now]
                             /\ url' = updateUrl(btcAmount, timeWindow)
                        ELSE UNCHANGED <<enabledButtons, metricsView, lastUpdate, url>>
    /\ UNCHANGED now
    /\ LibUnchanged

HandleTimeWindowClick ==
    /\ phase = "ready"
    /\ \E newTimeWindow \in enabledButtons :
         /\ currentTimeWindow' = newTimeWindow
         /\ metricsView' = updatePortfolioMetricsForTimeWindow(globalHistoricalData,
                globalCurrentPrice, globalBtcAmount, newTimeWindow, now)
         /\ lastUpdate' = [window |-> newTimeWindow, at |-> now]
         /\ url' = updateUrl(globalBtcAmount, newTimeWindow)
    /\ UNCHANGED <<now, globalHistoricalData, globalCurrentPrice, globalBtcAmount,
                   priceSource, loadedAt, phase, enabledButtons, settled>>
    /\ LibUnchanged

HandleBtcAmountChange ==
    /\ phase = "ready"
    /\ \E newAmount \in InputAmounts :
         IF newAmount.t = "nan" \/ LtZero(newAmount)
         THEN UNCHANGED <<globalBtcAmount, metricsView, lastUpdate, url>>
         ELSE /\ globalBtcAmount' = newAmount
              /\ url' = updateUrl(newAmount, currentTimeWindow)
              /\ IF globalHistoricalData # NoSeries
                 THEN /\ metricsView' = updatePortfolioMetricsForTimeWindow(
                             globalHistoricalData, globalCurrentPrice, newAmount,
                             currentTimeWindow, now)
                      /\ lastUpdate' = [window |-> currentTimeWindow, at |-> now]
                 ELSE UNCHANGED <<metricsView, lastUpdate>>
    /\ UNCHANGED <<now, globalHistoricalData, globalCurrentPrice, currentTimeWindow,
                   priceSource, loadedAt, phase, enabledButtons, settled>>
    /\ LibUnchanged

\* time passes between two events
Tick ==
    /\ phase = "ready"
    /\ now < loadedAt + MaxElapsed
    /\ now' = now + 1
    /\ UNCHANGED <<globalHistoricalData, globalCurrentPrice, globalBtcAmount,
                   currentTimeWindow, priceSource, metricsView, lastUpdate, loadedAt,
                   phase, enabledButtons, settled, url>>
    /\ LibUnchanged

NextApp == AppInit \/ HandleTimeWindowClick \/ HandleBtcAmountChange \/ Tick

SpecApp == InitApp /\ [][NextApp]_vars


-----------------------------------------------------------------------------
(* Claims about the stale-window flag and the missing start price *)

\* the metric elements show the result of an update over a loaded series
Updated ==
    /\ phase = "ready"
    /\ globalHistoricalData # NoSeries
    /\ lastUpdate.window \in WindowIds

\* the start date that the last update resolved for its window
ResolvedStart ==
    IF lastUpdate.window = "all" THEN parseDate(globalHistoricalData.start).val
    ELSE WindowStartDate(lastUpdate.window, lastUpdate.at)

\* the price that the last update found for the resolved start date
ResolvedStartPrice ==
    getPriceForDate(globalHistoricalData, DateObject(ResolvedStart)).val

StartIsLatest ==
    /\ ResolvedStartPrice.found
    /\ ResolvedStartPrice.date = getLatestPrice(globalHistoricalData).date

\* C6: for every window id, whenever the resolved start date of the window
\* equals the latest date of the series and the current price was taken from
\* that latest historical point (no live price), the result is flagged as a
\* stale window and is not presented as metrics (stated for a positive price
\* and amount, where the metrics can be computed).
C6_StaleWindowFlagged ==
    (/\ Updated
     /\ priceSource = "fallback"
     /\ StartIsLatest
     /\ IsPositive(globalCurrentPrice)
     /\ IsPositive(globalBtcAmount))
        => metricsView.kind = "stale"

\* C7: the stale-window flag is raised only if the current price came from
\* the latest historical point; with a live price the metrics of the window
\* are shown even if the resolved start date equals the latest date.
C7_StaleOnlyOnFallback ==
    (Updated /\ priceSource = "live") => metricsView.kind # "stale"

-----------------------------------------------------------------------------
(* Claims about getPriceRange and getLatestPrice *)

\* the offsets of the days of the series that lie in [from, to]
DaysInRange(from, to) ==
    {i \in 0..(Len(series.prices) - 1) :
        /\ from <= series.startDate + i * TicksPerDay
        /\ series.startDate + i * TicksPerDay <= to}

\* C11: getPriceRange(series, from, to) throws when from > to and otherwise
\* (from = to included) returns, in ascending date order, exactly one
\* {date, price} entry for each day of the series that lies in [from, to],
\* each equal to getPriceForDate for that day; the result is the empty list
\* when the range does not overlap the series.
C11_RangeIsClippedLookup ==
    (/\ call.op = "getPriceRange"
     /\ IsValidDateString(call.startDate)
     /\ IsValidDateString(call.endDate)) =>
        LET from == parseDate(call.startDate).val
            to   == parseDate(call.endDate).val
            r    == call.res.val
        IN  IF from > to THEN ~call.res.ok
            ELSE /\ call.res.ok
                 /\ Len(r) = Cardinality(DaysInRange(from, to))
                 /\ \A k \in 1..Len(r) :
                        /\ r[k] = getPriceForDate(series, StringTarget(r[k].date)).val
                        /\ \E i \in DaysInRange(from, to) :
                               parseDate(r[k].date).val = series.startDate + i * TicksPerDay
                 /\ \A k \in 1..(Len(r) - 1) :
                        parseDate(r[k].date).val < parseDate(r[k + 1].date).val

\* a range of a single day inside a series of several days returns that day
C11_Witness ==
    /\ call.op = "getPriceRange"
    /\ call.startDate = call.endDate
    /\ call.res.ok
    /\ Len(call.res.val) = 1
    /\ Len(series.prices) > 1
    /\ call.res.val[1].price = series.prices[2]

\* C12: getLatestPrice(series) returns the last element of prices paired with
\* the series' endDate, so it equals getPriceForDate(series, endDate).
C12_LatestIsLastPoint ==
    call.op = "getLatestPrice" =>
        /\ call.res = PriceInfo(formatDate(series.endDate),
                                series.prices[Len(series.prices)])
        /\ call.res = getPriceForDate(series, DateObject(series.endDate)).val

\* the latest price of a series whose first and last prices differ
C12_Witness ==
    /\ call.op = "getLatestPrice"
    /\ Len(series.prices) > 1
    /\ series.prices[1] # series.prices[Len(series.prices)]
    /\ call.res.price = series.prices[Len(series.prices)]

-----------------------------------------------------------------------------
(* Claims about the calendar windows *)

\* C13: for the week, month and year windows and every now, the resolved
\* start is the canonical start instant of the period containing now: 00:00
\* (a UTC day boundary) of the Monday of now's week, with a Sunday resolving
\* to the Monday six days earlier, 00:00 of the 1st of now's month, 00:00 of
\* January 1 of now's year; the start is never after now.
C13_CalendarStartIsPeriodStart ==
    (call.op = "getCalendarStartDate" /\ call.timeWindow \in {"wtd", "mtd", "ytd"}) =>
        LET start  == call.res.val
            civil  == CivilFromDays(UTCDay(start))
            today  == CivilFromDays(UTCDay(call.date))
        IN  /\ call.res.ok
            /\ start % TicksPerDay = 0
            /\ start <= call.date
            /\ call.timeWindow = "wtd" =>
                   /\ WeekDay(UTCDay(start)) = 1
                   /\ call.date < start + 7 * TicksPerDay
            /\ call.timeWindow = "mtd" => civil = <<today[1], today[2], 1>>
            /\ call.timeWindow = "ytd" => civil = <<today[1], 1, 1>>

-----------------------------------------------------------------------------
(* Claims about the all window *)

\* C14: for the all window the start is the series' startDate, so the start
\* price used for the metrics is prices[0] and the period is now minus
\* startDate.
C14_AllWindowStartsAtSeriesStart ==
    (Updated /\ lastUpdate.window = "all") =>
        /\ metricsView.kind \in {"metrics", "error"}
        /\ metricsView.kind = "metrics" =>
               LET m          == metricsView.metrics
                   startPrice == globalHistoricalData.prices[1]
                   period     == lastUpdate.at - globalHistoricalData.startDate
               IN  /\ m.initialValue = Mul(globalBtcAmount, startPrice)
                   /\ m.percentageGain =
                          Div(Sub(globalCurrentPrice, startPrice), startPrice)
                   /\ m.years = [t |-> "quot", n |-> 4 * period, d |-> 1461 * TicksPerDay]

\* the all window over a series of two days whose prices differ
C14_Witness ==
    /\ Updated
    /\ lastUpdate.window = "all"
    /\ metricsView.kind = "metrics"
    /\ Len(globalHistoricalData.prices) = 2
    /\ globalHistoricalData.prices[1] # globalHistoricalData.prices[2]
    /\ metricsView.metrics.initialValue =
           Mul(globalBtcAmount, globalHistoricalData.prices[1])

-----------------------------------------------------------------------------
(* Claims about window ids *)

\* C15: a window id is accepted exactly when it is one of the enumerated ids
\* (1d, wtd, mtd, ytd, 7d, 30d, 3mo, 6mo, 1y, 5y, all): isValidTimeWindow
\* and the URL period parser accept exactly those ids, and window resolution
\* fails with an unknown-window error for every other string.
C15_OnlyEnumeratedWindowIds ==
    /\ call.op = "isValidTimeWindow" =>
           (call.res <=> call.timeWindow \in WindowIds)
    /\ call.op = "getTimeWindowFromUrl" =>
           call.res = (IF call.timeWindow \in WindowIds THEN call.timeWindow ELSE "all")
    /\ call.op = "filterByTimeWindow" =>
           IF call.timeWindow \in WindowIds THEN call.res.ok
           ELSE ~call.res.ok /\ call.res.err = "Invalid time window"

-----------------------------------------------------------------------------
(* Claims about the errors and the values of the metrics *)

\* the preconditions of the metrics computation that an input violates
Violations(in) ==
    {k \in {"amount", "price", "period"} :
        \/ k = "amount" /\ LtZero(in.btcAmount)
        \/ k = "price"  /\ (LtZero(in.currentPrice) \/ LeZero(in.purchasePrice))
        \/ k = "period" /\ in.currentDate <= in.purchaseDate}

\* the inputs with finite numbers
FiniteInputs ==
    [btcAmount : {Num(v) : v \in -1..MaxPrice}, currentPrice : {Num(v) : v \in -1..MaxPrice},
     purchasePrice : {Num(v) : v \in -1..MaxPrice},
     purchaseDate : {TestNow - p : p \in PeriodTicks}, currentDate : {TestNow}]

MetricsOf(in) ==
    calculatePortfolioMetrics(in.btcAmount, in.currentPrice, in.purchasePrice,
                              in.purchaseDate, in.currentDate)

\* C16: the precondition failures of the metrics computation are distinct
\* error kinds: a negative amountHeld, an invalid price (currentPrice < 0 or
\* startPrice <= 0) and a non-positive period (now <= startInstant) each
\* raise an error that differs from the other two, so the caller can tell
\* which precondition was violated.
C16_DistinctPreconditionErrors ==
    (/\ call.op = "calculatePortfolioMetrics"
     /\ metricsInput \in FiniteInputs
     /\ Cardinality(Violations(metricsInput)) = 1) =>
        /\ ~call.res.ok
        /\ \A other \in FiniteInputs :
               (/\ Cardinality(Violations(other)) = 1
                /\ Violations(other) # Violations(metricsInput))
                   => MetricsOf(other).err # call.res.err

\* C17: every metrics object returned by calculatePortfolioMetrics satisfies
\* totalValue = amountHeld x currentPrice, initialValue = amountHeld x
\* startPrice and absoluteGain = totalValue - initialValue (the same number,
\* NaN where the difference is NaN).
C17_ValueIdentities ==
    MetricsReturned =>
        LET m == call.res.val
        IN  /\ m.totalValue = Mul(metricsInput.btcAmount, metricsInput.currentPrice)
            /\ m.initialValue = Mul(metricsInput.btcAmount, metricsInput.purchasePrice)
            /\ m.absoluteGain = Sub(m.totalValue, m.initialValue)

\* a holding of two coins bought at 1 and now worth 2 each
C17_Witness ==
    /\ MetricsReturned
    /\ metricsInput.btcAmount = Num(2)
    /\ metricsInput.currentPrice = Num(2)
    /\ metricsInput.purchasePrice = Num(1)
    /\ call.res.val.totalValue = Num(4)
    /\ call.res.val.initialValue = Num(2)
    /\ call.res.val.absoluteGain = Num(2)

-----------------------------------------------------------------------------
(* Claims about day arithmetic and the round trip of parse *)

\* the calendar date that follows <<y, m, d>>
NextCivil(ymd) ==
    IF ymd[3] < DaysInMonth(ymd[1], ymd[2]) THEN <<ymd[1], ymd[2], ymd[3] + 1>>
    ELSE IF ymd[2] < 12 THEN <<ymd[1], ymd[2] + 1, 1>>
    ELSE <<ymd[1] + 1, 1, 1>>

\* C18: calculateDate(start, n) is exact whole-UTC-day addition:
\* calculateDate(s, 0) = s, calculateDate(calculateDate(s, a), b) =
\* calculateDate(s, a + b), and consecutive n give consecutive calendar dates
\* across month and year boundaries.
C18_CalculateDateIsDayAddition ==
    call.op = "calculateDate" =>
        /\ call.zero = Return(call.startDate)
        /\ call.first.ok /\ call.then.ok /\ call.sum.ok /\ call.next.ok
        /\ call.then = call.sum
        /\ call.next.val = DateString(NextCivil(call.first.val.ymd))

\* one day and one more day from 2024-12-30 arrive at 2025-01-01
C18_Witness ==
    /\ call.op = "calculateDate"
    /\ call.startDate = DateString(<<2024, 12, 30>>)
    /\ call.a = 1
    /\ call.b = 1
    /\ call.first.val = DateString(<<2024, 12, 31>>)
    /\ call.then.val = DateString(<<2025, 1, 1>>)

\* C19: for any valid {start, prices}, parsing it and then re-deriving
\* {start, prices} from the parsed series' start date and prices reproduces
\* the input exactly.
C19_ParseRoundTrip ==
    (call.op = "parseHistoricalData" /\ call.res.ok) =>
        /\ RawObject(call.res.val.start, Array(call.res.val.prices)) = rawData
        /\ RawObject(formatDate(call.res.val.startDate), Array(call.res.val.prices)) = rawData

\* a series of several days that starts on 2024-02-28 was parsed
C19_Witness ==
    /\ call.op = "parseHistoricalData"
    /\ call.res.ok
    /\ rawData.start = DateString(<<2024, 2, 28>>)
    /\ Len(rawData.prices.a) > 1
    /\ formatDate(series.startDate) = rawData.start

-----------------------------------------------------------------------------
(* Claims about the series after construction *)

\* C20: a parsed series is read-only after construction: getPriceForDate,
\* getLatestPrice, getPriceRange and calculatePortfolioMetrics leave its
\* start, prices, totalDays and endDate unchanged, and a later change to the
\* raw input object that was passed to parseHistoricalData does not change
\* the series.
C20_SeriesIsReadOnly == [][series # NoSeries => series' = series]_vars

-----------------------------------------------------------------------------
(* The 1-day window in a zone whose offset changes once *)

ZoneDays == 3

ZoneStart == parseDate(AppStart).val

\* the change happens at local noon of the second day, forward or backward
ZoneChanges(offset) ==
    {NoChange} \cup {[at |-> ZoneStart + TicksPerDay + 2 - offset, shift |-> sh] : sh \in {-1, 1}}

ZoneNows == ZoneStart .. (ZoneStart + (ZoneDays + 1) * TicksPerDay - 1)

InitZone ==
    /\ tz \in TzOffsets
    /\ zoneChange \in ZoneChanges(tz)
    /\ rawData = RawObject(Undefined, NoArray("undefined"))
    /\ series = NoSeries
    /\ metricsInput = NoInput
    /\ call = NoCall
    /\ AppIdle

\* the start of the '1d' window for a reference date, and the years from it
ResolveOneDayWindow ==
    /\ \E date \in ZoneNows :
         LET res == getCalendarStartDate("1d", date).val
         IN  call' = [op |-> "oneDayWindow", date |-> date, res |-> res,
                      years |-> calculateYearsBetweenDates(res, date)]
    /\ UNCHANGED <<tz, rawData, series, metricsInput>>
    /\ AppUnchanged

NextZone == ResolveOneDayWindow

SpecZone == InitZone /\ [][NextZone]_vars

-----------------------------------------------------------------------------
(* Claim about the windows reported as available *)

\* C25: every window that getAvailableTimeWindows reports as available for
\* the series and now has a start price: getPriceForDate at the window's
\* resolved start is not null, so the update of an enabled window does not
\* end in the 'Insufficient data' outcome
C25_AvailableWindowHasStartPrice ==
    (/\ Updated
     /\ lastUpdate.window \in
            getAvailableTimeWindows(PriceDataOf(globalHistoricalData), lastUpdate.at))
        => ResolvedStartPrice.found

-----------------------------------------------------------------------------
(* Current price service: js/data/priceService.js.  Date.now() is counted  *)
(* in steps of 20 seconds.                                                 *)

\* 60 * 1000 ms, in steps of 20 seconds
CACHE_DURATION == 3

MaxClock == 6

\* an entry whose text JSON.parse rejects
CorruptEntry == [kind |-> "corrupt", price |-> Num(0), timestamp |-> 0]

Entry(price, timestamp) == [kind |-> "entry", price |-> price, timestamp |-> timestamp]

\* an entry that is still returned when its age equals CACHE_DURATION
CacheValidInclusive(age) == age <= CACHE_DURATION

\* now - data.timestamp < CACHE_DURATION
CacheValid(age) == age < CACHE_DURATION

\* the data returned (NoEntry for null) and the entry left in localStorage
getCachedPrice(cache, t) ==
    IF cache.kind = "none" THEN [data |-> NoEntry, store |-> cache]
    ELSE IF cache.kind = "corrupt" THEN [data |-> NoEntry, store |-> NoEntry]
    ELSE IF CacheValid(t - cache.timestamp) THEN [data |-> cache, store |-> cache]
    ELSE [data |-> NoEntry, store |-> NoEntry]

cachePrice(price, t) == Entry(price, t)

\* outcomes of fetchCurrentPrice()
FetchOutcomes ==
    {Return(Num(v)) : v \in 1..MaxPrice}
    \cup {Throw("API request failed"), Throw("Invalid API response format")}

\* the call starts at t; the fetch, when made, takes delay
getCurrentPrice(cache, t, outcome, delay) ==
    LET cached == getCachedPrice(cache, t)
    IN  IF cached.data.kind = "entry"
        THEN [res |-> Return(cached.data.price), store |-> cached.store,
              fetched |-> FALSE, fetchOk |-> FALSE, end |-> t]
        ELSE IF outcome.ok
        THEN [res |-> outcome, store |-> cachePrice(outcome.val, t + delay),
              fetched |-> TRUE, fetchOk |-> TRUE, end |-> t + delay]
        ELSE [res |-> IF cached.store.kind = "entry"
                      THEN Return(cached.store.price) ELSE outcome,
              store |-> cached.store, fetched |-> TRUE, fetchOk |-> FALSE,
              end |-> t + delay]

NoFetch == [some |-> FALSE, price |-> Num(0), at |-> 0]

\* the last successful fetch up to and including a call
LastFetchAfter(c) ==
    IF c.op # "getCurrentPrice" THEN NoFetch
    ELSE IF c.fetchOk
    THEN [some |-> TRUE, price |-> c.res.val, at |-> c.end]
    ELSE c.last

InitPrice ==
    /\ tz = 0
    /\ LibIdle
    /\ CoordinatorIdle
    /\ priceCache \in {NoEntry, CorruptEntry}
    /\ clock = 0
    /\ cachedHistoricalData = NoSeries
    /\ files = NoFiles
    /\ selector = NoSelector

PriceUnchanged ==
    UNCHANGED <<now, tz, zoneChange, rawData, series, metricsInput, globalHistoricalData,
                globalCurrentPrice, globalBtcAmount, currentTimeWindow, priceSource,
                metricsView, lastUpdate, loadedAt, phase, enabledButtons, settled, url,
                cachedHistoricalData, files, selector>>

GetCurrentPrice ==
    /\ \E outcome \in FetchOutcomes, delay \in 0..1 :
         LET r == getCurrentPrice(priceCache, clock, outcome, delay)
         IN  /\ r.end <= MaxClock
             /\ priceCache' = r.store
             /\ clock' = r.end
             /\ call' = [op |-> "getCurrentPrice", at |-> clock, end |-> r.end,
                         fetched |-> r.fetched, fetchOk |-> r.fetchOk, res |-> r.res,
                         last |-> LastFetchAfter(call)]
    /\ PriceUnchanged

\* time passes between two calls
Elapse ==
    /\ clock < MaxClock
    /\ clock' = clock + 1
    /\ UNCHANGED <<priceCache, call>>
    /\ PriceUnchanged

NextPrice == GetCurrentPrice \/ Elapse

SpecPrice == InitPrice /\ [][NextPrice]_vars

\* C21: when the live-price fetch fails and a price was cached earlier, even
\* one whose 60-second validity has expired, getCurrentPrice returns that
\* cached price instead of failing; it rethrows the fetch error only when no
\* price was cached
C21_FailedFetchFallsBackToCache ==
    (call.op = "getCurrentPrice" /\ call.fetched /\ ~call.fetchOk) =>
        IF call.last.some
        THEN call.res = Return(call.last.price)
        ELSE ~call.res.ok

\* C27: getCurrentPrice fetches only when no cache entry younger than 60
\* seconds exists: a call made less than 60 seconds after a successful fetch
\* returns that fetched price without fetching, and a call made 60 seconds or
\* more after it fetches again and, when the fetch succeeds, replaces the
\* cached price and timestamp
C27_FetchOnlyWhenCacheExpired ==
    (call.op = "getCurrentPrice" /\ call.last.some) =>
        IF call.at - call.last.at < CACHE_DURATION
        THEN /\ ~call.fetched
             /\ call.res = Return(call.last.price)
             /\ priceCache = Entry(call.last.price, call.last.at)
        ELSE /\ call.fetched
             /\ call.fetchOk => /\ call.res.ok
                                /\ priceCache = Entry(call.res.val, call.end)

\* a call made exactly 60 seconds after a fetch has fetched another price
C27_Witness ==
    /\ call.op = "getCurrentPrice"
    /\ call.last.some
    /\ call.at - call.last.at = CACHE_DURATION
    /\ call.fetchOk
    /\ call.res.val # call.last.price
    /\ priceCache = Entry(call.res.val, call.end)

-----------------------------------------------------------------------------
(* Loading the historical data: loadHistoricalData and clearCache of       *)
(* js/data/historicalData.js                                               *)

LoaderUrls == {"btc-prices.json", "test-prices.json"}

\* the response of fetch(url): not ok, or the json of the file
Response(ok, json) == [ok |-> ok, json |-> json]

\* result, whether fetch was called, and the module variable afterwards
loadHistoricalData(cached, dataUrl, response) ==
    IF cached # NoSeries
    THEN [res |-> Return(cached), fetched |-> FALSE, cached |-> cached]
    ELSE IF ~response.ok
    THEN [res |-> Throw("Failed to load historical data"), fetched |-> TRUE,
          cached |-> cached]
    ELSE LET parsedData == parseHistoricalData(response.json)
         IN  IF parsedData.ok
             THEN [res |-> parsedData, fetched |-> TRUE, cached |-> parsedData.val]
             ELSE [res |-> parsedData, fetched |-> TRUE, cached |-> cached]

clearCache == NoSeries

InitLoader ==
    /\ tz = 0
    /\ LibIdle
    /\ CoordinatorIdle
    /\ priceCache = NoEntry
    /\ clock = 0
    /\ cachedHistoricalData = NoSeries
    /\ files \in [LoaderUrls -> AppFiles]
    /\ selector = NoSelector

LoaderUnchanged ==
    UNCHANGED <<now, tz, zoneChange, rawData, series, metricsInput, globalHistoricalData,
                globalCurrentPrice, globalBtcAmount, currentTimeWindow, priceSource,
                metricsView, lastUpdate, loadedAt, phase, enabledButtons, settled, url,
                priceCache, clock, files, selector>>

LoadHistoricalData ==
    /\ \E u \in LoaderUrls, ok \in BOOLEAN :
         LET r == loadHistoricalData(cachedHistoricalData, u, Response(ok, files[u]))
         IN  /\ cachedHistoricalData' = r.cached
             /\ call' = [op |-> "loadHistoricalData", url |-> u, res |-> r.res,
                         fetched |-> r.fetched, before |-> cachedHistoricalData]
    /\ LoaderUnchanged

ClearCache ==
    /\ cachedHistoricalData' = clearCache
    /\ call' = [op |-> "clearCache"]
    /\ LoaderUnchanged

NextLoader == LoadHistoricalData \/ ClearCache

SpecLoader == InitLoader /\ [][NextLoader]_vars

\* C26: after any sequence of loadHistoricalData and clearCache calls, a
\* successful loadHistoricalData(url) returns the parsed content of the url it
\* was called with; a failed load stores nothing, and a call that follows a
\* failed load or clearCache fetches again
C26_LoadReturnsContentOfUrl ==
    /\ call.op = "loadHistoricalData" =>
           /\ call.res.ok => call.res = parseHistoricalData(files[call.url])
           /\ ~call.res.ok => cachedHistoricalData = NoSeries
           /\ call.before = NoSeries => call.fetched
    /\ call.op = "clearCache" => cachedHistoricalData = NoSeries

-----------------------------------------------------------------------------
(* Range selector: js/ui/rangeSelector.js.  The values are represented by  *)
(* their number; a pointer position by the index that toIndex gives it.    *)

MaxValues == 3

clampIndex(sel, index) == Min(Max(index, 0), sel.maxIndex)

\* the indexes that toIndex can return
ToIndexes(sel) == 0..sel.maxIndex

setValues(sel, length) ==
    [sel EXCEPT !.len = length,
                !.maxIndex = Max(length - 1, 0),
                !.startIndex = 0,
                !.endIndex = Max(length - 1, 0)]

setRange(sel, start, end) ==
    LET s == clampIndex(sel, start)
        e == clampIndex(sel, end)
    IN  IF s > e
        THEN [sel EXCEPT !.startIndex = e, !.endIndex = s]
        ELSE [sel EXCEPT !.startIndex = s, !.endIndex = e]

moveHandle(sel, index, handle) ==
    IF handle = "range"
    THEN LET clampedStart ==
                 Min(Max(index - sel.dragAnchorIndex, 0), sel.maxIndex - sel.dragRangeSize)
         IN  [sel EXCEPT !.startIndex = clampedStart,
                         !.endIndex = clampedStart + sel.dragRangeSize]
    ELSE IF handle = "left"
    THEN [sel EXCEPT !.startIndex = Min(index, sel.endIndex)]
    ELSE [sel EXCEPT !.endIndex = Max(index, sel.startIndex)]

\* createRangeSelector: the closure variables, then setValues(data)
createRangeSelector(length) == setValues(NoSelector, length)

InitSelector ==
    /\ tz = 0
    /\ LibIdle
    /\ CoordinatorIdle
    /\ priceCache = NoEntry
    /\ clock = 0
    /\ cachedHistoricalData = NoSeries
    /\ files = NoFiles
    /\ \E length \in 0..MaxValues : selector = createRangeSelector(length)

SelectorUnchanged ==
    UNCHANGED <<now, tz, zoneChange, rawData, series, metricsInput, globalHistoricalData,
                globalCurrentPrice, globalBtcAmount, currentTimeWindow, priceSource,
                metricsView, lastUpdate, loadedAt, phase, enabledButtons, settled, url,
                priceCache, clock, cachedHistoricalData, files, call>>

SetRange ==
    /\ \E start \in -1..MaxValues, end \in -1..MaxValues :
         selector' = setRange(selector, start, end)
    /\ SelectorUnchanged

SetValues ==
    /\ \E length \in 0..MaxValues : selector' = setValues(selector, length)
    /\ SelectorUnchanged

\* pointerdown on the left or the right handle
PointerDownHandle ==
    /\ \E name \in {"left", "right"} :
         selector' = [selector EXCEPT !.activeHandle = name,
                                      !.dragRangeSize = selector.endIndex - selector.startIndex]
    /\ SelectorUnchanged

\* pointerdown on the selection, outside the handles
PointerDownSelection ==
    /\ \E clickIndex \in ToIndexes(selector) :
         LET size == selector.endIndex - selector.startIndex
         IN  selector' = [selector EXCEPT
                 !.activeHandle = "range",
                 !.dragRangeSize = size,
                 !.dragAnchorIndex = Min(Max(clickIndex - selector.startIndex, 0), size)]
    /\ SelectorUnchanged

PointerMove ==
    /\ selector.activeHandle # "none"
    /\ \E index \in ToIndexes(selector) :
         selector' = moveHandle(selector, index, selector.activeHandle)
    /\ SelectorUnchanged

PointerUp ==
    /\ selector' = [selector EXCEPT !.activeHandle = "none"]
    /\ SelectorUnchanged

\* click on the chart: the nearer handle moves
ChartClick ==
    /\ \E index \in ToIndexes(selector) :
         LET distToStart == IF index >= selector.startIndex
                            THEN index - selector.startIndex
                            ELSE selector.startIndex - index
             distToEnd   == IF index >= selector.endIndex
                            THEN index - selector.endIndex
                            ELSE selector.endIndex - index
         IN  selector' = moveHandle(selector, index,
                                    IF distToStart <= distToEnd THEN "left" ELSE "right")
    /\ SelectorUnchanged

NextSelector ==
    \/ SetRange
    \/ SetValues
    \/ PointerDownHandle
    \/ PointerDownSelection
    \/ PointerMove
    \/ PointerUp
    \/ ChartClick

SpecSelector == InitSelector /\ [][NextSelector]_vars

\* C23: after any sequence of setRange, setValues, handle drags, selection
\* drags and chart clicks the range satisfies
\* 0 <= startIndex <= endIndex <= maxIndex with maxIndex = max(len - 1, 0),
\* also when setValues is called while a drag is in progress
C23_RangeWithinBounds ==
    /\ selector.maxIndex = Max(selector.len - 1, 0)
    /\ 0 <= selector.startIndex
    /\ selector.startIndex <= selector.endIndex
    /\ selector.endIndex <= selector.maxIndex

-----------------------------------------------------------------------------
(* Price file update: scripts/update-prices.js.  A timestamp is counted in *)
(* ticks; a fetched price is a whole number, which rounding to 2 decimals  *)
(* leaves as it is.                                                        *)

MaxPoints == 3

dateToTimestamp(dateString) ==
    DaysFromCivil(dateString.ymd[1], dateString.ymd[2], dateString.ymd[3]) * TicksPerDay

timestampToDate(timestamp) == DateString(CivilFromDays(timestamp \div TicksPerDay))

addDays(dateString, days) ==
    timestampToDate(dateToTimestamp(dateString) + days * TicksPerDay)

\* a < b for 'YYYY-MM-DD' strings
DateStringLess(a, b) ==
    \/ a.ymd[1] < b.ymd[1]
    \/ a.ymd[1] = b.ymd[1] /\ a.ymd[2] < b.ymd[2]
    \/ a.ymd[1] = b.ymd[1] /\ a.ymd[2] = b.ymd[2] /\ a.ymd[3] < b.ymd[3]

Point(date, price) == [date |-> date, price |-> price]

\* the loop of processPriceData: a point is skipped when its date is the date
\* of the point before it in the fetched list
RECURSIVE SkipRepeated(_, _)
SkipRepeated(rawPrices, previousDate) ==
    IF rawPrices = <<>> THEN <<>>
    ELSE LET date == timestampToDate(Head(rawPrices)[1])
         IN  IF date = previousDate
             THEN SkipRepeated(Tail(rawPrices), previousDate)
             ELSE <<Point(date, Head(rawPrices)[2])>> \o SkipRepeated(Tail(rawPrices), date)

\* insertion of one point behind the points that are not later (stable sort)
RECURSIVE InsertByDate(_, _)
InsertByDate(sorted, point) ==
    IF sorted = <<>> THEN <<point>>
    ELSE IF DateStringLess(point.date, Head(sorted).date)
    THEN <<point>> \o sorted
    ELSE <<Head(sorted)>> \o InsertByDate(Tail(sorted), point)

RECURSIVE SortByDate(_)
SortByDate(points) ==
    IF points = <<>> THEN <<>>
    ELSE InsertByDate(SortByDate(SubSeq(points, 1, Len(points) - 1)), points[Len(points)])

processPriceData(rawPrices) == SortByDate(SkipRepeated(rawPrices, Undefined))

\* readExistingData found no file
NoExistingData == [kind |-> "null"]

DataFile(start, prices) == [kind |-> "object", start |-> start, prices |-> prices]

RECURSIVE PricesAfter(_, _)
PricesAfter(newDataPoints, lastExistingDate) ==
    IF newDataPoints = <<>> THEN <<>>
    ELSE IF DateStringLess(lastExistingDate, Head(newDataPoints).date)
    THEN <<Head(newDataPoints).price>> \o PricesAfter(Tail(newDataPoints), lastExistingDate)
    ELSE PricesAfter(Tail(newDataPoints), lastExistingDate)

mergeData(existingData, newDataPoints) ==
    IF existingData = NoExistingData
    THEN IF newDataPoints = <<>>
         THEN Throw("No data to create new cache file")
         ELSE Return(DataFile(newDataPoints[1].date,
                              [i \in 1..Len(newDataPoints) |-> newDataPoints[i].price]))
    ELSE IF newDataPoints = <<>>
    THEN Return(existingData)
    ELSE LET lastExistingDate == addDays(existingData.start, Len(existingData.prices) - 1)
         IN  Return(DataFile(existingData.start,
                             existingData.prices \o PricesAfter(newDataPoints, lastExistingDate)))

\* the price files found on disk
ExistingFiles ==
    {NoExistingData}
    \cup {DataFile(AppStart, a) :
            a \in SeqsUpTo({Num(v) : v \in 1..MaxPrice}, MaxLen - 1) \ {<<>>}}

\* [timestamp, price] pairs that the price API returns for the days from the
\* last stored day on: two timestamps for each day, one price for each day
RawPoints(existingData) ==
    LET last == IF existingData = NoExistingData THEN dateToTimestamp(AppStart)
                ELSE dateToTimestamp(existingData.start)
                     + (Len(existingData.prices) - 1) * TicksPerDay
    IN  {<<last + d * TicksPerDay + h, Num(d + 1)>> : d \in 0..3, h \in {0, 2}}

InitUpdate ==
    /\ tz = 0
    /\ zoneChange = NoChange
    /\ rawData \in ExistingFiles
    /\ series = NoSeries
    /\ metricsInput = NoInput
    /\ call = NoCall
    /\ AppIdle

\* one run of the script on fetched points, and the merge of the same points
\* into its result
MergeFetched ==
    /\ call.op = "none"
    /\ \E rawPrices \in SeqsUpTo(RawPoints(rawData), MaxPoints) :
         LET points == processPriceData(rawPrices)
             merged == mergeData(rawData, points)
         IN  call' = [op |-> "mergeData", existing |-> rawData, points |-> points,
                      res |-> merged,
                      again |-> IF merged.ok THEN mergeData(merged.val, points) ELSE merged]
    /\ UNCHANGED <<tz, rawData, series, metricsInput>>
    /\ AppUnchanged

NextUpdate == MergeFetched

SpecUpdate == InitUpdate /\ [][NextUpdate]_vars

\* C24: mergeData keeps the stored series contiguous: existing.start and
\* existing.prices are an unchanged prefix of the result, for every index the
\* price at that index is the price fetched for day start + index (no skipped
\* and no repeated day), and merging the same points again adds nothing
C24_MergeKeepsSeriesContiguous ==
    (call.op = "mergeData" /\ call.existing # NoExistingData) =>
        LET n == Len(call.existing.prices)
            r == call.res.val
        IN  /\ call.res.ok
            /\ r.start = call.existing.start
            /\ Len(r.prices) >= n
            /\ SubSeq(r.prices, 1, n) = call.existing.prices
            /\ \A i \in (n + 1)..Len(r.prices) :
                   \E k \in 1..Len(call.points) :
                       /\ call.points[k].date = addDays(r.start, i - 1)
                       /\ call.points[k].price = r.prices[i]
            /\ call.again = call.res

-----------------------------------------------------------------------------
(* The chart points: addCurrentPriceToData of js/app.js *)

MaxChartPoints == 2

AbsOf(x) ==
    IF x.t = "num" THEN Num(IF x.v < 0 THEN -x.v ELSE x.v)
    ELSE IF x.t = "nan" THEN NaN
    ELSE Infinity

\* 0.001
THRESHOLD == [t |-> "quot", n |-> 1, d |-> 1000]

\* the current price is added at a difference of exactly 0.1% as well
ReachesThreshold(percentDifference) ==
    CASE percentDifference.t = "quot" -> ~QuotLess(percentDifference, THRESHOLD)
      [] percentDifference.t = "num"  -> percentDifference.v > 0
      [] percentDifference.t = "inf"  -> TRUE
      [] OTHER -> FALSE

\* percentDifference > THRESHOLD, for a quotient with a positive denominator
ExceedsThreshold(percentDifference) ==
    CASE percentDifference.t = "quot" -> QuotLess(THRESHOLD, percentDifference)
      [] percentDifference.t = "num"  -> percentDifference.v > 0
      [] percentDifference.t = "inf"  -> TRUE
      [] OTHER -> FALSE

\* !currentPrice
Falsy(x) == x.t = "nan" \/ (x.t = "num" /\ x.v = 0)

\* insertion of one point behind the points that are not later (stable sort)
RECURSIVE InsertPoint(_, _)
InsertPoint(sorted, point) ==
    IF sorted = <<>> THEN <<point>>
    ELSE IF point.date < Head(sorted).date
    THEN <<point>> \o sorted
    ELSE <<Head(sorted)>> \o InsertPoint(Tail(sorted), point)

\* [...priceData].sort((a, b) => new Date(a.date) - new Date(b.date))
RECURSIVE SortedCopy(_)
SortedCopy(priceData) ==
    IF priceData = <<>> THEN <<>>
    ELSE InsertPoint(SortedCopy(SubSeq(priceData, 1, Len(priceData) - 1)),
                     priceData[Len(priceData)])

\* the array returned and the input array after the call; t is new Date()
addCurrentPriceToData(priceData, currentPrice, t) ==
    IF Len(priceData) = 0 \/ Falsy(currentPrice)
    THEN [res |-> priceData, priceData |-> priceData]
    ELSE LET sortedData == SortedCopy(priceData)
             latestHistorical == sortedData[Len(sortedData)]
             priceDifference == AbsOf(Sub(currentPrice, latestHistorical.price))
             percentDifference == Div(priceDifference, latestHistorical.price)
         IN  IF ExceedsThreshold(percentDifference)
             THEN [res |-> sortedData \o <<[date |-> t, price |-> currentPrice]>>,
                   priceData |-> priceData]
             ELSE [res |-> sortedData, priceData |-> priceData]

ChartDays == {parseDate(AppStart).val + d * TicksPerDay : d \in 0..2}

\* prices around a difference of 0.1%
ChartPrices == {Num(0), Num(1000), Num(1001), Num(1002)}

\* arrays of points of different days, in any order
ChartInputs ==
    {a \in SeqsUpTo([date : ChartDays, price : ChartPrices], MaxChartPoints) :
        \A i, j \in 1..Len(a) : i # j => a[i].date # a[j].date}

\* instants after the last day of the points
ChartNows == {parseDate(AppStart).val + 2 * TicksPerDay + h : h \in {1, TicksPerDay}}

InitChart ==
    /\ tz = 0
    /\ LibIdle
    /\ AppIdle

AddCurrentPriceToData ==
    /\ call.op = "none"
    /\ \E priceData \in ChartInputs, currentPrice \in ChartPrices \cup {NaN}, t \in ChartNows :
         LET r == addCurrentPriceToData(priceData, currentPrice, t)
         IN  call' = [op |-> "addCurrentPriceToData", priceData |-> priceData,
                      currentPrice |-> currentPrice, at |-> t, res |-> r.res,
                      after |-> r.priceData]
    /\ UNCHANGED <<tz, rawData, series, metricsInput>>
    /\ AppUnchanged

NextChart == AddCurrentPriceToData

SpecChart == InitChart /\ [][NextChart]_vars

\* the dates of an array ascend
Ascending(points) == \A i \in 1..(Len(points) - 1) : points[i].date <= points[i + 1].date

\* the price of the point with the latest date
LatestHistoricalPrice(points) ==
    LET i == CHOOSE k \in 1..Len(points) : \A j \in 1..Len(points) : points[j].date <= points[k].date
    IN  points[i].price

\* c differs from l by more than 0.1% of l
DiffersByMoreThanThreshold(c, l) ==
    (IF c.v >= l.v THEN c.v - l.v ELSE l.v - c.v) * 1000 > l.v

SamePoints(a, b) == {a[i] : i \in 1..Len(a)} = {b[i] : i \in 1..Len(b)}

\* the result holds the points of the input in ascending order, followed by
\* the current price iff it differs by more than 0.1%
SortedWithCurrentPrice ==
    LET n == Len(call.priceData)
    IN  /\ Ascending(call.res)
        /\ IF DiffersByMoreThanThreshold(call.currentPrice,
                                         LatestHistoricalPrice(call.priceData))
           THEN /\ Len(call.res) = n + 1
                /\ SamePoints(SubSeq(call.res, 1, n), call.priceData)
                /\ call.res[n + 1] = [date |-> call.at, price |-> call.currentPrice]
           ELSE /\ Len(call.res) = n
                /\ SamePoints(call.res, call.priceData)

\* C28 as stated: addCurrentPriceToData returns the points in ascending date
\* order and appends the current price as the final point exactly when it
\* differs from the latest historical price by more than 0.1% of that price;
\* the input array is never modified
C28_SortedAndCurrentPriceAppended ==
    (/\ call.op = "addCurrentPriceToData"
     /\ Len(call.priceData) > 0
     /\ call.currentPrice.t = "num")
        => /\ SortedWithCurrentPrice
           /\ call.after = call.priceData

\* C28 amended: for a current price that is a number other than 0 the result
\* is the input in ascending date order, with the current price appended as
\* the final point exactly when it differs from the latest historical price by
\* more than 0.1% of that price; for a current price of 0 or NaN the input
\* array itself is returned, in its own order and with no point added; the
\* input array is never modified
C28_SortedAndNonZeroPriceAppended ==
    (call.op = "addCurrentPriceToData" /\ Len(call.priceData) > 0)
        => /\ IF Falsy(call.currentPrice)
              THEN call.res = call.priceData
              ELSE SortedWithCurrentPrice
           /\ call.after = call.priceData

\* two points given in descending order, and a current price 0.2% above the
\* price of the later one
C28_Witness ==
    /\ call.op = "addCurrentPriceToData"
    /\ Len(call.priceData) = 2
    /\ call.priceData[1].date > call.priceData[2].date
    /\ call.priceData[1].price = Num(1000)
    /\ call.currentPrice = Num(1002)
    /\ Len(call.res) = 3
    /\ call.res[1] = call.priceData[2]

-----------------------------------------------------------------------------
(* Claim about the price sources of init() *)

\* C22: at init the current price is the live price when its fetch succeeds;
\* when it fails and the historical series loaded, it is the latest price of
\* the series; when both fail the error state is shown and no price and no
\* metrics are displayed; when only the historical load fails the live price
\* is displayed and no window metrics are computed
C22_InitPriceSources ==
    /\ settled.currentPrice = "fulfilled" =>
           /\ phase = "ready"
           /\ priceSource = "live"
           /\ globalCurrentPrice = settled.value
    /\ (settled.currentPrice = "rejected" /\ settled.historicalData = "fulfilled") =>
           /\ phase = "ready"
           /\ priceSource = "fallback"
           /\ globalCurrentPrice = getLatestPrice(globalHistoricalData).price
    /\ (settled.currentPrice = "rejected" /\ settled.historicalData = "rejected") =>
           /\ phase = "failed"
           /\ priceSource = "none"
           /\ metricsView.kind = "none"
           /\ globalHistoricalData = NoSeries
    /\ (settled.currentPrice = "fulfilled" /\ settled.historicalData = "rejected") =>
           /\ globalHistoricalData = NoSeries
           /\ metricsView.kind \notin {"metrics", "stale"}
    /\ settled.historicalData = "fulfilled" => globalHistoricalData # NoSeries

\* the live price was rejected and the page shows metrics computed with the
\* latest price of a series of two days
C22_Witness ==
    /\ settled.currentPrice = "rejected"
    /\ settled.historicalData = "fulfilled"
    /\ Len(globalHistoricalData.prices) = 2
    /\ globalHistoricalData.prices[1] # globalHistoricalData.prices[2]
    /\ globalCurrentPrice = globalHistoricalData.prices[2]
    /\ metricsView.kind \in {"metrics", "stale"}

-----------------------------------------------------------------------------
(* Claim about the URL parameters *)

\* C30: the URL state round-trips: for every amount that the amount input
\* handler accepts and every window that a user can select, after
\* updateUrl(amount, window) the functions getBtcAmountFromUrl and
\* getTimeWindowFromUrl read back the same amount and the same window
C30_UrlRoundTrip ==
    (/\ phase = "ready"
     /\ globalHistoricalData # NoSeries
     /\ url = updateUrl(globalBtcAmount, currentTimeWindow))
        => /\ getBtcAmountFromUrl(url.btc) = globalBtcAmount
           /\ getTimeWindowFromUrl(url.period) = currentTimeWindow

=============================================================================
